---- MODULE Spec2Model ----
(***************************************************************************)
(* Model of the NEVR render-world resource pipeline:                       *)
(*   GeometryManager / prepare_materials / prepare_geometry                *)
(*                                          (src/engine/geometry.rs)       *)
(*   BlasManager / prepare_blas / compact_blas   (src/engine/blas.rs)      *)
(*   VoxelBindings / prepare_bindings            (src/lib.rs)              *)
(*   NEVRPlugin, NEVRNodeRender, DenoiserPlugin: build and finish          *)
(*                       (src/lib.rs, src/engine/node.rs, denoiser.rs)     *)
(*   FramesInFlight / render                     (src/engine/render.rs)    *)
(*                                                                         *)
(* One render frame runs the systems in the order NEVRPlugin::finish       *)
(* schedules them.  Option<T> is modelled as a sequence of length 0 or 1.  *)
(* An f32 is modelled as an exact rational <<numerator, denominator>>      *)
(* (rounding is not modelled); u32 arithmetic never gets near 2^32 within  *)
(* the bounds, so it is modelled on the naturals.                          *)
(***************************************************************************)
EXTENDS Integers, Sequences, FiniteSets, TLC

VARIABLES
    pc,               \* the system that runs next in the frame
    blocks,           \* the objects alive when prepare_bindings last ran
    voxel_types,      \* ExtractedAssets<RenderVoxelType>
    geometry_manager, \* Res<GeometryManager>
    blas_manager,     \* Res<BlasManager>
    gpu,              \* the device's BLAS objects, indexed by handle
    voxel_bindings,   \* Res<VoxelBindings>
    frame_log,        \* what the current frame saw, submitted and printed
    app,              \* the App NEVRPlugin is added to: device features, plugins, hooks
    voxel_render,     \* the resources of the VoxelRender schedule (engine/render.rs)
    view,             \* the camera's view: its textures and what the graph nodes did
    main_world        \* the main world: the VoxelCameras' change ticks and FrameCount

vars == <<pc, blocks, voxel_types,
          geometry_manager, blas_manager, gpu, voxel_bindings, frame_log,
          app, voxel_render, view, main_world>>

\* a u32 as its two 16-bit halves <<high, low>>
U32Half == 2^16

u32_MAX == <<U32Half - 1, U32Half - 1>>

\* the u32 of a number below 2^31
u32(n) == <<n \div U32Half, n % U32Half>>

\* a > b, for two u32
u32_gt(a, b) == a[1] > b[1] \/ (a[1] = b[1] /\ a[2] > b[2])

\* a * 2 in u32: the wrapped product and whether the multiplication overflowed
u32_mul2(a) ==
    LET low == a[2] * 2
        high == a[1] * 2 + low \div U32Half
    IN [value |-> <<high % U32Half, low % U32Half>>, overflow |-> high >= U32Half]

\* the builds of the crate: overflow-checks on (dev profile: an overflowing
\* operation panics) or off (release profile: it wraps)
OverflowChecks == BOOLEAN

\* the main world before any camera is spawned; FrameCount(0)
MainWorldDefault == [cameras |-> << >>, frame_count |-> <<0, 0>>]

\* the state the render systems of a frame neither read nor write
hostVars == <<app, voxel_render, view, main_world>>

----------------------------------------------------------------------------
(* Bounds of the model *)

\* the most objects alive at once
MaxObjects == 2
\* VoxelTypes are extracted only while fewer BLAS objects than this exist:
\* in the frames with objects, and in the frames of the asset pipeline alone
MaxBlas == 2
MaxAssetBlas == 3
\* the longest compaction queue the compaction specification starts from
MaxQueue == 3

\* asset handles the host may hand out
TypeIds == {1, 2}
MaterialIds == {1, 2}
\* world matrices an object may have, as Mat4::to_cols_array (column-major):
\* the identity and a translation by (5, 6, 7)
Transforms ==
    { << 1,0,0,0,  0,1,0,0,  0,0,1,0,  0,0,0,1 >>,
      << 1,0,0,0,  0,1,0,0,  0,0,1,0,  5,6,7,1 >> }

\* VoxelType assets: a size and a list of RelativeVoxel (material, position)
VoxelTypeAssets ==
    [t \in TypeIds |->
        IF t = 1
        THEN [size |-> 1,
              voxels |-> << [material |-> 1, position |-> <<0, 0, 0>>] >>]
        ELSE [size |-> 2,
              voxels |-> << [material |-> 1, position |-> <<0, 0, 0>>],
                            [material |-> 2, position |-> <<1, 0, 0>>] >>]]

----------------------------------------------------------------------------
(* Generic helpers *)

None == << >>
Some(x) == << x >>

Range(s) == {s[i] : i \in 1..Len(s)}

\* all sequences without repetition over a finite set
RECURSIVE Perms(_)
Perms(S) ==
    IF S = {} THEN {<< >>}
    ELSE UNION {{<<x>> \o p : p \in Perms(S \ {x})} : x \in S}

DistinctSeqs(S) == UNION {Perms(T) : T \in SUBSET S}

\* HashMap::insert / HashMap::remove on a function
MapInsert(m, k, v) == [x \in (DOMAIN m) \cup {k} |-> IF x = k THEN v ELSE m[x]]
MapRemove(m, K) == [x \in (DOMAIN m) \ K |-> m[x]]
EmptyMap == [x \in {} |-> 0]

\* ExtractedAssets<RenderVoxelType>: the ids in the order of extraction, the
\* removed ids, and the asset extracted with each id
ExtractedAssets(extracted, removed, assets) ==
    [extracted |-> extracted, removed |-> removed,
     assets |-> [t \in Range(extracted) |-> assets[t]]]

\* an f32 as an exact rational
F(n) == <<n, 1>>

----------------------------------------------------------------------------
(* geometry.rs: the canonical unit cube *)

VERTICES ==
    << 1,1,1,  1,0,1,  1,1,0,  1,0,0,
       1,0,1,  0,0,1,  1,0,0,  0,0,0,
       1,1,1,  0,1,1,  1,0,1,  0,0,1,
       0,1,1,  0,0,1,  0,1,0,  0,0,0,
       1,1,1,  0,1,1,  1,1,0,  0,1,0,
       1,1,0,  0,1,0,  1,0,0,  0,0,0 >>

NORMALS ==
    << 1,0,0,   1,0,0,   1,0,0,   1,0,0,
       0,-1,0,  0,-1,0,  0,-1,0,  0,-1,0,
       0,0,1,   0,0,1,   0,0,1,   0,0,1,
       -1,0,0,  -1,0,0,  -1,0,0,  -1,0,0,
       0,1,0,   0,1,0,   0,1,0,   0,1,0,
       0,0,-1,  0,0,-1,  0,0,-1,  0,0,-1 >>

INDICES ==
    << 2,0,1,     2,1,3,
       6,4,5,     6,5,7,
       10,8,9,    10,9,11,
       13,12,14,  15,13,14,
       17,16,18,  19,17,18,
       21,20,22,  23,21,22 >>

\* BufferVec<T>: the host-side values and the device buffer (None until the
\* first write_buffer of a non-empty vector; write_buffer copies all values)
NewBufferVec == [values |-> << >>, buffer |-> None]

\* a push that inserts at the front
BufferVecPushFront(bv, s) == [bv EXCEPT !.values = s \o @]

BufferVecPush(bv, s) == [bv EXCEPT !.values = @ \o s]

BufferVecWrite(bv) ==
    IF bv.values = << >> THEN bv ELSE [bv EXCEPT !.buffer = Some(bv.values)]

\* GeometryManager::default
GeometryManagerDefault ==
    [geometries_vertices |-> EmptyMap,
     geometries_indices  |-> EmptyMap,
     added_types         |-> << >>,
     added_materials     |-> << >>,
     vertices            |-> NewBufferVec,
     indices             |-> NewBufferVec,
     normals             |-> NewBufferVec,
     materials           |-> NewBufferVec,
     material_map        |-> NewBufferVec,
     object_map          |-> EmptyMap,
     index_map           |-> << >>,
     material_index_map  |-> << >>]

\* Vec::contains
Contains(s, x) == \E i \in 1..Len(s) : s[i] = x

\* GeometryManager::index_of_material: the 0-based position, or None
index_of_material(gm, id) ==
    IF Contains(gm.added_materials, id)
    THEN Some((CHOOSE i \in 1..Len(gm.added_materials) :
                   gm.added_materials[i] = id) - 1)
    ELSE None

\* GeometryManager::get_object_id / get_index / get_index_material
get_object_id(gm, id) ==
    IF id \in DOMAIN gm.object_map THEN Some(gm.object_map[id]) ELSE None

get_index(gm, object_id) ==
    IF object_id + 1 \in 1..Len(gm.index_map)
    THEN Some(gm.index_map[object_id + 1]) ELSE None

get_index_material(gm, object_id) ==
    IF object_id + 1 \in 1..Len(gm.material_index_map)
    THEN Some(gm.material_index_map[object_id + 1]) ELSE None

----------------------------------------------------------------------------
(* geometry.rs: prepare_materials *)

\* the VoxelMaterial value stored for a handle
MaterialAsset(id) == [material |-> id]

RECURSIVE prepare_materials_loop(_, _, _)
prepare_materials_loop(gm, extracted, new_additions) ==
    IF extracted = << >>
    THEN [gm |-> gm, new_additions |-> new_additions]
    ELSE LET id == Head(extracted)
             added == Contains(gm.added_materials, id)
             gm1 == IF ~added
                    THEN [gm EXCEPT
                            !.added_materials = Append(@, id),
                            !.materials = BufferVecPush(@, <<MaterialAsset(id)>>)]
                    ELSE gm
         IN prepare_materials_loop(gm1, Tail(extracted), new_additions \/ ~added)

prepare_materials(gm, extracted) ==
    LET r == prepare_materials_loop(gm, extracted, FALSE)
    IN IF r.new_additions
       THEN [r.gm EXCEPT !.materials = BufferVecWrite(@)]
       ELSE r.gm

----------------------------------------------------------------------------
(* geometry.rs: prepare_geometry *)

\* VERTICES.len() as u32 / 3
VerticesPerVoxel == Len(VERTICES) \div 3

\* transform * v on one axis, transform = scale(size).with_translation(position * size)
\* with size = 1.0 / voxel_type.size(): (v + position) / voxel_type.size()
Coord(v, p, type_size) == <<v + p, type_size>>

\* a push that leaves the padding value out
Pad4Dropped(s, w) == s

\* a flat list of triples, each followed by the padding value w
Pad4(s, w) ==
    [i \in 1..((Len(s) \div 3) * 4) |->
        IF i % 4 = 0 THEN w ELSE s[3 * ((i - 1) \div 4) + ((i - 1) % 4) + 1]]

\* the 24 transformed vertices of one voxel, x, y, z each
VoxelVertices(voxel, type_size) ==
    [i \in 1..Len(VERTICES) |->
        Coord(VERTICES[i], voxel.position[((i - 1) % 3) + 1], type_size)]

\* the 36 indices of one voxel, local to its type
VoxelIndices(offset) ==
    [i \in 1..Len(INDICES) |-> INDICES[i] + offset * VerticesPerVoxel]

\* one voxel of the loop at geometry.rs 289-353; st carries the manager, the
\* per-type vectors, the voxel counter and the panic flag
prepare_geometry_voxel(st, voxel, type_size, added, global_offset) ==
    LET gm == st.gm
        vs == VoxelVertices(voxel, type_size)
        is == VoxelIndices(st.offset)
        gm1 == IF ~added
               THEN [gm EXCEPT !.vertices = BufferVecPush(@, Pad4(vs, F(1)))]
               ELSE gm
        material_id == index_of_material(gm, voxel.material)
    IN IF ~added /\ material_id = None
       THEN \* .unwrap() on None
            [st EXCEPT !.gm = gm1, !.panicked = TRUE]
       ELSE LET gm2 ==
                  IF ~added
                  THEN [gm1 EXCEPT
                          !.material_map = BufferVecPush(@,
                              [i \in 1..(Len(INDICES) \div 3) |-> material_id[1]]),
                          !.indices = BufferVecPush(@,
                              Pad4([i \in 1..Len(is) |-> is[i] + global_offset], 0)),
                          !.normals = BufferVecPush(@,
                              Pad4([i \in 1..Len(NORMALS) |-> F(NORMALS[i])], F(1)))]
                  ELSE gm1
            IN [gm |-> gm2,
                vertices |-> st.vertices \o vs,
                indices |-> st.indices \o is,
                offset |-> st.offset + 1,
                panicked |-> FALSE]

RECURSIVE prepare_geometry_voxels(_, _, _, _, _)
prepare_geometry_voxels(st, voxels, type_size, added, global_offset) ==
    IF voxels = << >> \/ st.panicked THEN st
    ELSE prepare_geometry_voxels(
             prepare_geometry_voxel(st, Head(voxels), type_size, added, global_offset),
             Tail(voxels), type_size, added, global_offset)

\* a bookkeeping that numbers a new type by the count of the types that
\* still have their buffers, so that the id of a removed type is given out again
RecordNewTypeReusingId(gm, id, global_offset) ==
    LET object_id == Cardinality(DOMAIN gm.geometries_vertices)
        material_offset == Len(gm.material_map.values)
    IN [gm EXCEPT
          !.added_types = Append(@, id),
          !.object_map = MapInsert(@, id, object_id),
          !.index_map = Append(@, global_offset),
          !.material_index_map = Append(@, material_offset)]

\* a bookkeeping that leaves the object id of a new type out of the map
RecordNewTypeNoObject(gm, id, global_offset) ==
    [gm EXCEPT
       !.added_types = Append(@, id),
       !.index_map = Append(@, global_offset),
       !.material_index_map = Append(@, Len(gm.material_map.values))]

\* the first-ingestion bookkeeping at geometry.rs 279-287
RecordNewType(gm, id, global_offset) ==
    LET object_id == Len(gm.added_types)
        material_offset == Len(gm.material_map.values)
    IN [gm EXCEPT
          !.added_types = Append(@, id),
          !.object_map = MapInsert(@, id, object_id),
          !.index_map = Append(@, global_offset),
          !.material_index_map = Append(@, material_offset)]

\* the four uploads at geometry.rs 367-380
WriteSharedBuffers(gm) ==
    [gm EXCEPT
       !.vertices = BufferVecWrite(@),
       !.indices = BufferVecWrite(@),
       !.normals = BufferVecWrite(@),
       !.material_map = BufferVecWrite(@)]

\* an ingestion that never recognises a recorded type
TypeAddedNever(gm, id) == FALSE

\* geometry_manager.added_types.contains(id)
TypeAdded(gm, id) == Contains(gm.added_types, id)

\* one iteration of the loop over voxel_types.extracted (geometry.rs 265-384)
prepare_geometry_type(st, id) ==
    LET gm == st.gm
        voxel_type == st.assets[id]
        \* divided by 4 because in the shader we use a vec4 for indices
        global_offset == Len(gm.indices.values) \div 4
        added == TypeAdded(gm, id)
        new_additions == st.new_additions \/ ~added
        gm1 == IF ~added THEN RecordNewType(gm, id, global_offset) ELSE gm
        r == prepare_geometry_voxels(
                 [gm |-> gm1, vertices |-> << >>, indices |-> << >>,
                  offset |-> 0, panicked |-> FALSE],
                 voxel_type.voxels, voxel_type.size, added, global_offset)
    IN IF r.panicked
       THEN [gm |-> r.gm, new_additions |-> new_additions, panicked |-> TRUE,
             uploads |-> st.uploads, assets |-> st.assets]
       ELSE LET gm2 == IF new_additions THEN WriteSharedBuffers(r.gm) ELSE r.gm
            IN [gm |-> [gm2 EXCEPT
                          !.geometries_vertices = MapInsert(@, id, r.vertices),
                          !.geometries_indices = MapInsert(@, id, r.indices)],
                new_additions |-> new_additions,
                panicked |-> FALSE,
                uploads |-> IF new_additions THEN st.uploads + 1 ELSE st.uploads,
                assets |-> st.assets]

RECURSIVE prepare_geometry_types(_, _)
prepare_geometry_types(st, extracted) ==
    IF extracted = << >> \/ st.panicked THEN st
    ELSE prepare_geometry_types(prepare_geometry_type(st, Head(extracted)),
                                Tail(extracted))

\* a removal that also forgets the object id of the type
RemoveGeometriesAndObject(gm, removed) ==
    [gm EXCEPT
       !.geometries_vertices = MapRemove(@, removed),
       !.geometries_indices = MapRemove(@, removed),
       !.object_map = MapRemove(@, removed)]

\* the removal loop at geometry.rs 258-261
RemoveGeometries(gm, removed) ==
    [gm EXCEPT
       !.geometries_vertices = MapRemove(@, removed),
       !.geometries_indices = MapRemove(@, removed)]

\* the whole system: [gm, new_additions, panicked, uploads]; uploads counts
\* the write_buffer calls the call made on each shared buffer
prepare_geometry(gm, types) ==
    prepare_geometry_types(
        [gm |-> RemoveGeometries(gm, types.removed),
         new_additions |-> FALSE, panicked |-> FALSE, uploads |-> 0,
         assets |-> types.assets],
        types.extracted)

----------------------------------------------------------------------------
(* blas.rs: BlasManager, prepare_blas, compact_blas *)

MAX_COMPACTION_VERTICES_PER_FRAME == 400000

BlasManagerDefault == [blas |-> EmptyMap, compaction_queue |-> << >>]

\* a lookup that falls back to the first device object
BlasGetOrFirst(bm, id) == Some(IF id \in DOMAIN bm.blas THEN bm.blas[id] ELSE 1)

\* BlasManager::get
BlasGet(bm, id) == IF id \in DOMAIN bm.blas THEN Some(bm.blas[id]) ELSE None

\* Buffer::size of a buffer of f32 / u32 values, in bytes
BufferSize(contents) == Len(contents) * 4

\* allocate_blas: the size descriptor and a new device object; the handle of
\* an object is its position in gpu.  compact_state follows wgpu: Idle until
\* prepare_compaction_async, Waiting until the size query retires, then Ready;
\* a copy made by Queue::compact_blas is Compacted.  built says that the build
\* was submitted, build_done that the device has executed it.
allocate_blas(vertices_size, indices_size) ==
    [\* 4 floats in a vertex, 4 bytes in a float
     vertex_count |-> (vertices_size \div 4) \div 16,
     \* 4 bytes per int
     index_count |-> indices_size \div 4,
     built |-> FALSE,
     build_done |-> FALSE,
     compact_state |-> "Idle",
     requests |-> 0]

\* the map over voxel_types.extracted at blas.rs 49-67
RECURSIVE prepare_blas_allocate(_, _, _)
prepare_blas_allocate(st, gm, extracted) ==
    IF extracted = << >> \/ st.panicked THEN st
    ELSE LET id == Head(extracted)
         IN IF id \notin DOMAIN gm.geometries_vertices
               \/ id \notin DOMAIN gm.geometries_indices
            THEN [st EXCEPT !.panicked = TRUE]
            ELSE LET obj == allocate_blas(BufferSize(gm.geometries_vertices[id]),
                                          BufferSize(gm.geometries_indices[id]))
                     handle == Len(st.gpu) + 1
                 IN prepare_blas_allocate(
                        [st EXCEPT
                           !.gpu = Append(@, obj),
                           !.bm.blas = MapInsert(@, id, handle),
                           !.bm.compaction_queue =
                               Append(@, <<id, obj.vertex_count, FALSE>>),
                           !.built = Append(@, handle)],
                        gm, Tail(extracted))

\* a prepare_blas that records the builds and never submits them
SubmitBlasBuildsNever(g, handles) == g

\* build_acceleration_structures + submit at blas.rs 90-93: the call returns
\* when the command buffer is queued, not when the device has run it
SubmitBlasBuilds(g, handles) ==
    [h \in 1..Len(g) |->
        IF h \in Range(handles) THEN [g[h] EXCEPT !.built = TRUE] ELSE g[h]]

\* a prepare_blas that leaves the BLAS of a removed type in the map
RemoveBlasSkipped(bm, removed) == bm

\* the removal loop at blas.rs 41-43
RemoveBlas(bm, removed) == [bm EXCEPT !.blas = MapRemove(@, removed)]

\* the whole system: [bm, gpu, panicked]
prepare_blas(bm, g, gm, types) ==
    LET bm1 == RemoveBlas(bm, types.removed)
    IN IF types.extracted = << >>
       THEN [bm |-> bm1, gpu |-> g, panicked |-> FALSE]
       ELSE LET r == prepare_blas_allocate(
                         [bm |-> bm1, gpu |-> g, built |-> << >>,
                          panicked |-> FALSE],
                         gm, types.extracted)
            IN IF r.panicked
               THEN [bm |-> r.bm, gpu |-> r.gpu, panicked |-> TRUE]
               ELSE [bm |-> r.bm, gpu |-> SubmitBlasBuilds(r.gpu, r.built),
                     panicked |-> FALSE]

\* Blas::prepare_compaction_async(|_| {}): starts the size query of an Idle,
\* built BLAS; on any other BLAS the error goes to the (empty) callback.
\* `now` holds the handles whose query retires before the next poll.
prepare_compaction_async(g, h, now) ==
    [g EXCEPT ![h] =
        [@ EXCEPT
           !.requests = @ + 1,
           !.compact_state =
               IF g[h].compact_state = "Idle" /\ g[h].built
               THEN (IF h \in now THEN "Ready" ELSE "Waiting")
               ELSE @]]

\* Blas::ready_for_compaction
ready_for_compaction(g, h) == g[h].compact_state = "Ready"

\* RenderQueue::compact_blas: a new, compacted device object
QueueCompactBlas(g, h) ==
    Append(g, [g[h] EXCEPT !.compact_state = "Compacted", !.requests = 0,
                           !.build_done = FALSE])

\* an entry that is not ready is dropped instead of queued again
RequeueDropped(queue, id, count) == queue

\* an entry that is not ready is queued again as if it had never been polled
RequeueFresh(queue, id, count) == Append(queue, <<id, count, FALSE>>)

\* compaction_queue.push_back((id, count, true)) of an entry that is not ready
Requeue(queue, id, count) == Append(queue, <<id, count, TRUE>>)

\* one iteration of the while loop at blas.rs 105-123
compact_blas_step(st, now) ==
    LET entry == Head(st.bm.compaction_queue)
        id == entry[1]
        count == entry[2]
        processing == entry[3]
        popped == [st EXCEPT !.blocks_processed = @ + 1,
                             !.bm.compaction_queue = Tail(@)]
        blas == BlasGet(st.bm, id)
    IN IF blas = None THEN popped
       ELSE LET h == blas[1]
                g1 == IF ~processing
                      THEN prepare_compaction_async(st.gpu, h, now)
                      ELSE st.gpu
            IN IF ready_for_compaction(g1, h)
               THEN [popped EXCEPT
                       !.gpu = QueueCompactBlas(g1, h),
                       !.bm.blas = MapInsert(@, id, Len(g1) + 1),
                       !.vertices_processed = @ + count]
               ELSE [popped EXCEPT
                       !.gpu = g1,
                       !.bm.compaction_queue = Requeue(@, id, count)]

\* a while loop that does not test vertices_processed
RECURSIVE compact_blas_loop_unbudgeted(_, _, _)
compact_blas_loop_unbudgeted(st, queue_size, now) ==
    IF st.bm.compaction_queue # << >>
       /\ st.blocks_processed < queue_size
    THEN CHOOSE r \in {compact_blas_loop_unbudgeted(s, queue_size, now) :
                          s \in {compact_blas_step(st, now)}} : TRUE
    ELSE st

\* the while loop at blas.rs 101-124 (the state after an iteration is bound
\* as a value before the next one reads it)
RECURSIVE compact_blas_loop(_, _, _)
compact_blas_loop(st, queue_size, now) ==
    IF st.bm.compaction_queue # << >>
       /\ st.vertices_processed < MAX_COMPACTION_VERTICES_PER_FRAME
       /\ st.blocks_processed < queue_size
    THEN CHOOSE r \in {compact_blas_loop(s, queue_size, now) :
                          s \in {compact_blas_step(st, now)}} : TRUE
    ELSE st

\* a compact_blas whose pass ceiling is one more than the queue length
compact_blas_extra_pass(bm, g, now) ==
    compact_blas_loop(
        [bm |-> bm, gpu |-> g, blocks_processed |-> 0, vertices_processed |-> 0],
        Len(bm.compaction_queue) + 1, now)

\* the whole system: [bm, gpu, blocks_processed, vertices_processed]
compact_blas(bm, g, now) ==
    compact_blas_loop(
        [bm |-> bm, gpu |-> g, blocks_processed |-> 0, vertices_processed |-> 0],
        Len(bm.compaction_queue), now)

----------------------------------------------------------------------------
(* lib.rs: VoxelBindings, prepare_bindings *)

\* VoxelBindings::from_world
VoxelBindingsDefault == [bind_group |-> None]

\* Mat4::transpose, on the column-major array
Transpose(m) == [i \in 1..16 |-> m[4 * ((i - 1) % 4) + ((i - 1) \div 4) + 1]]

\* a conversion that takes the first 12 values of the matrix as it is stored
tlas_transform_untransposed(m) == SubSeq(m, 1, 12)

\* tlas_transform: transform.transpose().to_cols_array()[..12]
tlas_transform(m) == SubSeq(Transpose(m), 1, 12)

\* create_tlas: max_instances empty slots
CreateTlas(max_instances) == [i \in 1..max_instances |-> None]

\* a loop that does not skip hidden objects
IsVisibleAlways(block) == TRUE

\* *visible != InheritedVisibility::HIDDEN
IsVisible(block) == block.visible

\* a lookup that falls back to a null BLAS handle
BlockBlasOrNull(bm, block) ==
    IF block.voxel_type \in DOMAIN bm.blas
    THEN Some(bm.blas[block.voxel_type]) ELSE Some(0)

\* blas_manager.get(&block.voxel_type)
BlockBlas(bm, block) == BlasGet(bm, block.voxel_type)

\* the body of the loop over blocks_query at lib.rs 450-483
prepare_bindings_block(st, block, bm, gm) ==
    IF ~IsVisible(block) THEN st
    ELSE LET blas == BlockBlas(bm, block)
         IN IF blas = None THEN st
            ELSE LET id == get_object_id(gm, block.voxel_type)
                     index_id == IF id = None THEN None ELSE get_index(gm, id[1])
                     material_id ==
                         IF id = None THEN None ELSE get_index_material(gm, id[1])
                 IN IF id = None \/ index_id = None \/ material_id = None
                    THEN [st EXCEPT !.returned = TRUE]
                    ELSE [st EXCEPT
                            !.tlas[st.instance_id + 1] =
                                Some([blas |-> blas[1],
                                      transform |-> tlas_transform(block.transform),
                                      custom_index |-> st.instance_id,
                                      mask |-> 255]),
                            !.objects = Append(@, [index |-> index_id[1],
                                                   material_id |-> material_id[1]]),
                            !.instance_id = @ + 1]

RECURSIVE prepare_bindings_loop(_, _, _, _)
prepare_bindings_loop(st, query, bm, gm) ==
    IF query = << >> \/ st.returned THEN st
    ELSE prepare_bindings_loop(prepare_bindings_block(st, Head(query), bm, gm),
                               Tail(query), bm, gm)

\* only the vertex buffer is tested
MissingBufferVerticesOnly(gm) ==
    IF gm.vertices.buffer = None THEN Some("no vertices") ELSE None

\* no buffer is tested
MissingBufferUnchecked(gm) == None

\* the first shared buffer that is missing, in the order lib.rs 486-505 tests them
MissingBuffer(gm) ==
    IF gm.vertices.buffer = None THEN Some("no vertices")
    ELSE IF gm.normals.buffer = None THEN Some("no normals")
    ELSE IF gm.indices.buffer = None THEN Some("no indices")
    ELSE IF gm.materials.buffer = None THEN Some("no materials")
    ELSE IF gm.material_map.buffer = None THEN Some("no material map")
    ELSE None

\* the bind group layout of group 0 (lib.rs 212-234), which the pipelines of
\* NEVRNode are created with (node.rs 59-72): the resource each binding is
\* declared for and its binding type, in binding order
VoxelBindGroupLayout ==
    << [resource |-> "tlas", ty |-> "acceleration_structure"],
       [resource |-> "objects", ty |-> "storage_buffer_read_only<RenderObject>"],
       [resource |-> "indices", ty |-> "storage_buffer_read_only<UVec4>"],
       [resource |-> "vertices", ty |-> "storage_buffer_read_only<Vec4>"],
       [resource |-> "normals", ty |-> "storage_buffer_read_only<Vec4>"],
       [resource |-> "materials", ty |-> "storage_buffer_read_only<VoxelMaterial>"],
       [resource |-> "material_map", ty |-> "storage_buffer_read_only<u32>"] >>

\* entries that bind the vertex buffer before the index buffer
BindGroupEntriesVerticesFirst ==
    << "tlas", "objects", "vertices", "indices", "normals", "materials",
       "material_map" >>

\* BindGroupEntries::sequential at lib.rs 514-522
BindGroupEntries ==
    << "tlas", "objects", "indices", "vertices", "normals", "materials",
       "material_map" >>

\* the early return on an empty query is never taken
NoBlocksNever(query) == FALSE

\* blocks_query.is_empty()
NoBlocks(query) == query = << >>

\* the whole system: the new bind_group, the TLAS builds submitted and the
\* lines printed
prepare_bindings(query, bm, gm) ==
    IF NoBlocks(query)
    THEN [bind_group |-> None, tlas_builds |-> << >>, printed |-> <<"no blocks">>]
    ELSE LET r == prepare_bindings_loop(
                      [tlas |-> CreateTlas(Len(query)), objects |-> << >>,
                       instance_id |-> 0, returned |-> FALSE],
                      query, bm, gm)
             missing == MissingBuffer(gm)
         IN IF r.returned
            THEN [bind_group |-> None, tlas_builds |-> << >>, printed |-> << >>]
            ELSE IF missing # None
            THEN [bind_group |-> None, tlas_builds |-> << >>, printed |-> missing]
            ELSE [bind_group |-> Some([tlas |-> r.tlas,
                                       tlas_build_done |-> FALSE,
                                       objects |-> r.objects,
                                       entries |-> BindGroupEntries]),
                  tlas_builds |-> << r.tlas >>,
                  printed |-> << >>]

----------------------------------------------------------------------------
(* lib.rs, node.rs, denoiser.rs: the plugins.  The App is modelled by what
   the plugins add to it: app.resources, app.systems, app.graph_nodes and
   app.graph_edges belong to the render sub-app, app.plugins and
   app.main_systems to the main app.  Bevy calls Plugin::finish in the order
   of the plugin registry, in which a plugin precedes the plugins its build
   adds. *)

\* the device features the model tells apart: the two NEVR requires and three
\* it does not
WgpuFeatures ==
    {"EXPERIMENTAL_RAY_TRACING_ACCELERATION_STRUCTURE", "EXPERIMENTAL_RAY_QUERY",
     "TIMESTAMP_QUERY", "PUSH_CONSTANTS", "SHADER_F64"}

\* NEVRPlugin::required_hw_features
required_hw_features ==
    {"EXPERIMENTAL_RAY_TRACING_ACCELERATION_STRUCTURE", "EXPERIMENTAL_RAY_QUERY"}

\* a test that is satisfied by any one of the features
FeaturesContainsAny(self, other) == self \cap other # {}

\* bitflags contains: every flag of other is set in self
FeaturesContains(self, other) == other \subseteq self

\* bitflags difference: the flags of self that are not in other (self & !other)
FeaturesDifference(self, other) == self \ other

\* an App with DefaultPlugins, on a device with the given features
AppNew(features) ==
    [features |-> features,
     plugin_registry |-> << >>,
     finished |-> 0,
     plugins |-> {},
     main_systems |-> {},
     resources |-> {},
     systems |-> {},
     graph_nodes |-> {},
     graph_edges |-> {},
     printed |-> << >>,
     panicked |-> FALSE]

\* App::add_plugins(NEVRPlugin): NEVRPlugin::build, with the build of
\* NEVRNodeRender and DenoiserPlugin (lib.rs 107-122, denoiser.rs 67-73)
NEVRPlugin_build(a) ==
    [a EXCEPT
       !.plugin_registry = @ \o <<"NEVRPlugin", "NEVRNodeRender", "DenoiserPlugin">>,
       !.plugins = @ \cup {"ExtractResourcePlugin<RenderVoxelLight>",
                           "ExtractResourcePlugin<VoxelSkybox>",
                           "RenderAssetPlugin<VoxelMaterial>",
                           "RenderAssetPlugin<RenderVoxelType>",
                           "ExtractComponentPlugin<VoxelBlock>",
                           "ExtractComponentPlugin<VoxelCamera>",
                           "ExtractResourcePlugin<VoxelDenoiser>"},
       !.main_systems = @ \cup {"reset_frame_count"}]

\* the line NEVRPlugin::finish prints when a feature is missing
MissingFeaturesLine(features) ==
    [text |-> "Missing features",
     features |-> FeaturesDifference(features, required_hw_features)]

\* NEVRPlugin::finish (lib.rs 124-177)
NEVRPlugin_finish(a) ==
    IF ~FeaturesContains(a.features, required_hw_features)
    THEN [a EXCEPT !.printed = Append(@, MissingFeaturesLine(a.features))]
    ELSE [a EXCEPT
            !.resources = @ \cup {"BlasManager", "GeometryManager", "VoxelBindings"},
            !.systems = @ \cup {"prepare_view_target", "prepare_materials",
                                "prepare_geometry", "prepare_blas", "compact_blas",
                                "prepare_bindings"}]

\* NEVRNodeRender::finish (node.rs 36-44): add_render_graph_node builds the
\* node with NEVRNode::from_world, which reads the VoxelBindings resource
\* (node.rs 54-57) and panics when it does not exist
NEVRNodeRender_finish(a) ==
    IF "VoxelBindings" \notin a.resources
    THEN [a EXCEPT !.panicked = TRUE]
    ELSE [a EXCEPT
            !.graph_nodes = @ \cup {"NEVRNodeLabel"},
            !.graph_edges = @ \cup {<<"StartMainPass", "NEVRNodeLabel">>,
                                    <<"NEVRNodeLabel", "MainOpaquePass">>}]

\* DenoiserPlugin::finish (denoiser.rs 75-84): DenoiserNode::from_world reads
\* the RenderDevice and the PipelineCache, which exist; an edge from or to a
\* node the graph does not have panics
DenoiserPlugin_finish(a) ==
    LET added == [a EXCEPT !.graph_nodes = @ \cup {"DenoiserLabel"}]
    IN IF "NEVRNodeLabel" \notin a.graph_nodes
       THEN [added EXCEPT !.panicked = TRUE]
       ELSE [added EXCEPT
               !.graph_edges = @ \cup {<<"NEVRNodeLabel", "DenoiserLabel">>,
                                       <<"DenoiserLabel", "MainOpaquePass">>}]

\* Plugin::finish of the plugin named
PluginFinish(a, plugin) ==
    IF plugin = "NEVRPlugin" THEN NEVRPlugin_finish(a)
    ELSE IF plugin = "NEVRNodeRender" THEN NEVRNodeRender_finish(a)
    ELSE DenoiserPlugin_finish(a)

\* App::finish: each plugin of the registry in turn, until one panics
RECURSIVE AppFinish(_)
AppFinish(a) ==
    IF a.panicked \/ a.finished = Len(a.plugin_registry) THEN a
    ELSE AppFinish([PluginFinish(a, a.plugin_registry[a.finished + 1])
                       EXCEPT !.finished = @ + 1])

\* the App whose frames the render systems run in: NEVRPlugin added and
\* finished on a device that has the required features
AppInstalled == AppFinish(NEVRPlugin_build(AppNew(required_hw_features)))

----------------------------------------------------------------------------
(* render.rs: FramesInFlight, FrameFutures, render *)

MAX_FRAMES_IN_FLIGHT == 3

\* FramesInFlight::get
FramesInFlightGet(f) == f

\* an increment that wraps one step late
FramesInFlightIncLate(f) == IF f + 1 > MAX_FRAMES_IN_FLIGHT THEN 0 ELSE f + 1

\* FramesInFlight::inc
FramesInFlightInc(f) == IF f + 1 >= MAX_FRAMES_IN_FLIGHT THEN 0 ELSE f + 1

\* FramesInFlight::get_and_inc: the value returned and the new counter
get_and_inc(f) == [frame |-> FramesInFlightGet(f), counter |-> FramesInFlightInc(f)]

\* init_resource::<FramesInFlight>, init_non_send_resource::<FrameFutures>
\* (render.rs 115-116): the counter, for each slot the future of the GPU
\* work last submitted for it ("none", "pending" or "retired"), and the slots
\* get_and_inc returned so far.  in_flight counts, for each slot, the
\* submissions writing its readback buffer that the GPU has not finished;
\* last_read is what the last read of a readback buffer met.
VoxelRenderDefault ==
    [frames_in_flight |-> 0,
     futures |-> [slot \in 0..(MAX_FRAMES_IN_FLIGHT - 1) |-> "none"],
     acquired |-> << >>,
     in_flight |-> [slot \in 0..(MAX_FRAMES_IN_FLIGHT - 1) |-> 0],
     last_read |-> << >>]

\* buffer.read() (render.rs 169): Err while a submission that writes the
\* buffer is in flight
BufferReadFails(vr, slot) == vr.in_flight[slot] > 0

\* a host that goes on without waiting
WaitFrameSkipped(vr, slot) == vr

\* frame.join(now).then_signal_fence().wait(None) (render.rs 173-177): returns
\* when the work of the slot's future has retired
WaitFrame(vr, slot) == [vr EXCEPT !.in_flight[slot] = 0]

\* render (render.rs 149-250): takes the slot's future, reads the slot's
\* buffer (waiting for the future when the GPU still writes it), and submits
\* new work for the slot unless a descriptor set is missing
render(vr, descriptor_sets) ==
    LET r == get_and_inc(vr.frames_in_flight)
        slot == r.frame
        taken == [vr EXCEPT !.frames_in_flight = r.counter,
                            !.acquired = Append(@, slot),
                            !.futures[slot] = "none"]
        fails == BufferReadFails(taken, slot)
        ready == IF fails THEN WaitFrame(taken, slot) ELSE taken
        read == [ready EXCEPT !.last_read =
                    <<[slot |-> slot, waited |-> fails,
                       in_flight |-> ready.in_flight[slot]]>>]
    IN IF descriptor_sets
       THEN [read EXCEPT !.futures[slot] = "pending",
                         !.in_flight[slot] = @ + 1]
       ELSE read

----------------------------------------------------------------------------
(* The view of the camera: prepare_view_target (lib.rs), NEVRNode
   (engine/node.rs) and DenoiserNode (engine/denoiser.rs) *)

\* VoxelDenoiser
VoxelDenoiserNone == <<"None">>
VoxelDenoiserSimple == <<"Simple">>
ATrous(size) == <<"ATrous", size>>

\* u32::div_ceil
div_ceil(a, b) == (a + b - 1) \div b

\* the number of bits of a positive integer
RECURSIVE BitLen(_)
BitLen(n) == IF n = 0 THEN 0 ELSE 1 + BitLen(n \div 2)

\* the number of bits of a u32: u32::BITS - leading_zeros
u32_bits(a) == IF a[1] > 0 THEN 16 + BitLen(a[1]) ELSE BitLen(a[2])

\* the bits of the significand of an f32
F32_MANTISSA_DIGITS == 24

\* `n as f32`, for a u32 n: the nearest value with a significand of 24 bits,
\* ties to the even one. The float is significand * 2^exponent.
as_f32(n) ==
    IF u32_bits(n) <= F32_MANTISSA_DIGITS
      THEN [significand |-> n[1] * U32Half + n[2], exponent |-> 0]
    ELSE LET shift == u32_bits(n) - F32_MANTISSA_DIGITS
             ulp == 2 ^ shift
             q == n[1] * (U32Half \div ulp) + n[2] \div ulp
             r == n[2] % ulp
             up == 2 * r > ulp \/ (2 * r = ulp /\ q % 2 = 1)
         IN [significand |-> IF up THEN q + 1 ELSE q, exponent |-> shift]

\* x.log2().floor() as usize, for a float x >= 1 that holds an integer: the
\* floor of the exact logarithm (the logarithm of a power of two is exact)
log2_floor(x) == BitLen(x.significand) - 1 + x.exponent

\* the length of VoxelGBuffer::secondary_textures prepare_view_target
\* allocates
SecondaryTextures(denoiser) ==
    IF denoiser[1] = "ATrous" THEN log2_floor(as_f32(denoiser[2])) + 1 ELSE 0

\* what a texture the TextureCache hands out holds before a pass writes it
Stale == <<"stale">>

\* the components of the view and what the two nodes did in their last run
ViewDefault ==
    [denoiser |-> VoxelDenoiserNone,
     viewport |-> None,         \* ExtractedCamera::physical_viewport_size
     output |-> Stale,          \* VoxelViewTarget::output
     secondary_textures |-> << >>,
     resources |-> None,        \* the render world the graph last ran in
     node |-> None,
     denoiser_node |-> None]

\* prepare_view_target, for the camera of the view; the camera and the
\* VoxelDenoiser extracted for the frame are kept with the view
prepare_view_target(v, viewport, denoiser) ==
    IF viewport = None THEN [v EXCEPT !.denoiser = denoiser, !.viewport = viewport]
    ELSE [v EXCEPT !.denoiser = denoiser,
                   !.viewport = viewport,
                   !.secondary_textures =
                       [k \in 1..SecondaryTextures(denoiser) |-> Stale]]

\* NEVRNode::run. `pipelines` is the set of the pipelines the PipelineCache
\* has compiled, `skybox` the VoxelSkybox resource: None, or Some(whether its
\* GpuImage is there). The result holds what the run printed, the uniform
\* buffers it wrote and the compute passes it recorded.
NodeRunEmpty ==
    [result |-> "Ok", printed |-> << >>, uniform_writes |-> 0, passes |-> << >>]

NEVRNode_run_unguarded(bind_group, pipelines, viewport, view_uniforms, skybox) ==
    [NodeRunEmpty EXCEPT
        !.uniform_writes = 2,
        !.passes = <<[pipeline |-> "pipeline", bind_groups |-> <<0, 1, 2>>,
                      dispatch |-> <<1, 1, 1>>]>>]

NEVRNode_run(bind_group, pipelines, viewport, view_uniforms, skybox) ==
    LET pipeline_id == IF skybox # None THEN "skybox_pipeline" ELSE "pipeline"
    IN IF pipeline_id \notin pipelines
         THEN [NodeRunEmpty EXCEPT !.printed = <<"pipeline state">>]
       ELSE IF viewport = None
         THEN [NodeRunEmpty EXCEPT !.printed = <<"no viewport size">>]
       ELSE IF bind_group = None
         THEN [NodeRunEmpty EXCEPT !.printed = <<"no bind group">>]
       ELSE IF view_uniforms = None
         THEN [NodeRunEmpty EXCEPT !.printed = <<"no view uniforms">>]
       ELSE IF skybox = Some(FALSE)
         THEN [NodeRunEmpty EXCEPT !.printed = <<"no skybox image found">>,
                                   !.uniform_writes = 2]
       ELSE [NodeRunEmpty EXCEPT
                !.uniform_writes = 2,
                !.passes =
                    <<[pipeline |-> pipeline_id,
                       bind_groups |-> IF skybox # None THEN <<0, 1, 2, 3>>
                                       ELSE <<0, 1, 2>>,
                       dispatch |-> <<div_ceil(viewport[1][1], 8),
                                      div_ceil(viewport[1][2], 8), 1>>]>>]

\* the loop of a_trous_pipeline from the filter i and the texture index on:
\* the passes it records, and whether it panicked: it indexed past the
\* textures, or `i *= 2` overflowed in a build that checks
RECURSIVE a_trous_loop(_, _, _, _, _, _)
a_trous_loop(i, index, size, textures, passes, overflow_checks) ==
    IF u32_gt(i, size) THEN [passes |-> passes, panicked |-> FALSE]
    ELSE IF index >= textures THEN [passes |-> passes, panicked |-> TRUE]
    ELSE LET recorded == Append(passes,
                                [filter |-> i, writes |-> index,
                                 reads |-> IF index = 0 THEN "view_input"
                                           ELSE index - 1])
             doubled == u32_mul2(i)
         IN IF doubled.overflow /\ overflow_checks
              THEN [passes |-> recorded, panicked |-> TRUE]
            ELSE a_trous_loop(doubled.value, index + 1, size, textures,
                              recorded, overflow_checks)

\* DenoiserNode::run over the view: what it printed, the filter passes it
\* recorded, the texture it copied to the view target ("view_input", or the
\* index of a secondary texture) and the view after it
DenoiserRunEmpty ==
    [result |-> "Ok", printed |-> << >>, passes |-> << >>, copied |-> None]

DenoiserNode_run(v, pipelines, viewport, view_uniforms, overflow_checks) ==
    IF viewport = None
      THEN [view |-> v,
            run |-> [DenoiserRunEmpty EXCEPT !.printed = <<"no viewport size">>]]
    ELSE IF view_uniforms = None
      THEN [view |-> v,
            run |-> [DenoiserRunEmpty EXCEPT !.printed = <<"no view uniforms">>]]
    ELSE IF v.denoiser = VoxelDenoiserNone
      THEN [view |-> v,
            run |-> [DenoiserRunEmpty EXCEPT !.copied = Some("view_input")]]
    ELSE IF v.denoiser = VoxelDenoiserSimple
      THEN IF "simple_pipeline" \notin pipelines
             THEN [view |-> v,
                   run |-> [DenoiserRunEmpty EXCEPT !.printed = <<"pipeline state">>]]
           ELSE [view |-> v,
                 run |-> [DenoiserRunEmpty EXCEPT
                             !.passes = <<[filter |-> 0, writes |-> "view_output",
                                           reads |-> "view_input"]>>]]
    ELSE IF "a_trous_pipeline" \notin pipelines
      THEN [view |-> v,
            run |-> [DenoiserRunEmpty EXCEPT !.printed = <<"pipeline state">>]]
    ELSE LET n == Len(v.secondary_textures)
             r == a_trous_loop(u32(1), 0, v.denoiser[2], n, << >>, overflow_checks)
             written == [k \in 1..n |-> IF k <= Len(r.passes)
                                        THEN <<"denoised", r.passes[k].filter>>
                                        ELSE v.secondary_textures[k]]
         IN IF r.panicked \/ n = 0
              THEN [view |-> [v EXCEPT !.secondary_textures = written],
                    run |-> [DenoiserRunEmpty EXCEPT !.result = "panicked",
                                                     !.passes = r.passes]]
            ELSE [view |-> [v EXCEPT !.secondary_textures = written],
                  run |-> [DenoiserRunEmpty EXCEPT !.passes = r.passes,
                                                   !.copied = Some(n - 1)]]

----------------------------------------------------------------------------
(* The frame: host edits and asset extraction, then the render systems in
   the order NEVRPlugin::finish schedules them *)

NoAssets == ExtractedAssets(<< >>, {}, VoxelTypeAssets)
\* what prepare_bindings did in this frame: the TLAS builds it submitted, the
\* lines it printed, whether the objects differ from those of its last run
\* and whether a bind group was active when it started
FrameLogEmpty ==
    [tlas_builds |-> << >>, printed |-> << >>,
     objects_changed |-> FALSE, had_bind_group |-> FALSE]

Init ==
    /\ pc = "extract"
    /\ blocks = << >>
    /\ voxel_types = NoAssets
    /\ geometry_manager = GeometryManagerDefault
    /\ blas_manager = BlasManagerDefault
    /\ gpu = << >>
    /\ voxel_bindings = VoxelBindingsDefault
    /\ frame_log = FrameLogEmpty
    /\ app = AppInstalled
    /\ voxel_render = VoxelRenderDefault
    /\ view = ViewDefault
    /\ main_world = MainWorldDefault

renderVars == <<voxel_types, geometry_manager, blas_manager,
                gpu, voxel_bindings, frame_log>>

IdentityTransform == << 1,0,0,0,  0,1,0,0,  0,0,1,0,  0,0,0,1 >>

\* what the query over (RenderVoxelBlock, GlobalTransform, InheritedVisibility)
\* may yield: up to MaxObjects objects, in any order (the transform of a
\* hidden object is never read: it is left at the identity)
Blocks ==
    {b \in [voxel_type : TypeIds, transform : Transforms, visible : BOOLEAN] :
        b.visible \/ b.transform = IdentityTransform}

RECURSIVE SeqsUpTo(_, _)
SeqsUpTo(S, n) ==
    IF n = 0 THEN {<< >>}
    ELSE LET shorter == SeqsUpTo(S, n - 1)
         IN shorter \cup {Append(q, x) : q \in {r \in shorter : Len(r) = n - 1}, x \in S}

BlockQueries == SeqsUpTo(Blocks, MaxObjects)

\* extraction: the asset events of this frame become ExtractedAssets;
\* `versions` are the contents the host's Assets<VoxelType> may have
ExtractOver(max_blas, versions) ==
    /\ pc = "extract"
    /\ \E ts \in DistinctSeqs(TypeIds),
          rs \in SUBSET (DOMAIN geometry_manager.object_map),
          assets \in versions :
          /\ Len(gpu) + Len(ts) <= max_blas
          /\ voxel_types' = ExtractedAssets(ts, rs, assets)
    /\ frame_log' = FrameLogEmpty
    /\ pc' = "prepare_materials"
    /\ UNCHANGED <<hostVars, blocks, geometry_manager, blas_manager, gpu,
                   voxel_bindings>>

\* the host never edits a VoxelType it has created
ExtractUpTo(max_blas) == ExtractOver(max_blas, {VoxelTypeAssets})

Extract == ExtractUpTo(MaxBlas)

ExtractAssets == ExtractUpTo(MaxAssetBlas)

\* ExtractedAssets<VoxelMaterial>::extracted is read by this system alone: it
\* is the input of the step
PrepareMaterialsFrom(inputs) ==
    /\ pc = "prepare_materials"
    /\ \E extracted \in inputs :
          geometry_manager' = prepare_materials(geometry_manager, extracted)
    /\ pc' = "prepare_geometry"
    /\ UNCHANGED <<hostVars, blocks, voxel_types,
                   blas_manager, gpu, voxel_bindings, frame_log>>

\* the host creates its materials together, at startup or not yet
LoadMaterials == PrepareMaterialsFrom({<< >>, <<1, 2>>})

\* materials are created in any order, in any frame
PrepareMaterials == PrepareMaterialsFrom(DistinctSeqs(MaterialIds))

PrepareGeometry ==
    /\ pc = "prepare_geometry"
    /\ LET r == prepare_geometry(geometry_manager, voxel_types)
       IN /\ geometry_manager' = r.gm
          /\ pc' = IF r.panicked THEN "panicked" ELSE "prepare_blas"
    /\ UNCHANGED <<hostVars, blocks, voxel_types,
                   blas_manager, gpu, voxel_bindings, frame_log>>

PrepareBlas ==
    /\ pc = "prepare_blas"
    /\ LET r == prepare_blas(blas_manager, gpu, geometry_manager, voxel_types)
       IN /\ blas_manager' = r.bm
          /\ gpu' = r.gpu
          /\ pc' = IF r.panicked THEN "panicked" ELSE "prepare_assets"
    /\ UNCHANGED <<hostVars, blocks, voxel_types,
                   geometry_manager, voxel_bindings, frame_log>>

\* bevy's prepare_assets, which the systems above are ordered before: it
\* drains ExtractedAssets::extracted, and no system reads the resource again
\* before the next extraction replaces it
PrepareAssets ==
    /\ pc = "prepare_assets"
    /\ voxel_types' = NoAssets
    /\ pc' = "compact_blas"
    /\ UNCHANGED <<hostVars, blocks, geometry_manager, blas_manager, gpu,
                   voxel_bindings, frame_log>>

\* handles of the BLAS objects whose compaction-size query is in flight
Waiting(g) == {h \in 1..Len(g) : g[h].compact_state = "Waiting"}

\* the device retires the compaction-size query of a BLAS, between a frame's
\* prepare_blas and the next frame's ("ticked" is the rest of a frame in the
\* specification of the BlasManager alone)
GpuReady ==
    /\ pc \in {"compact_blas", "ticked"}
    /\ \E h \in Waiting(gpu) :
          gpu' = [gpu EXCEPT ![h].compact_state = "Ready"]
    /\ UNCHANGED <<hostVars, pc, blocks, voxel_types,
                   geometry_manager, blas_manager, voxel_bindings, frame_log>>

\* handles the compaction queue refers to
Queued(bm) ==
    {bm.blas[e[1]] : e \in {x \in Range(bm.compaction_queue) : x[1] \in DOMAIN bm.blas}}

\* one call of compact_blas; `now` is drawn from the handles it may poll
CompactBlasThen(next_pc) ==
    /\ pc = "compact_blas"
    /\ \E now \in SUBSET Queued(blas_manager) :
          \E r \in {compact_blas(blas_manager, gpu, now)} :
             /\ blas_manager' = r.bm
             /\ gpu' = r.gpu
    /\ pc' = next_pc
    /\ UNCHANGED <<hostVars, blocks, voxel_types,
                   geometry_manager, voxel_bindings, frame_log>>

CompactBlas == CompactBlasThen("prepare_bindings")

\* a prepare_bindings that runs only when the objects changed
PrepareBindingsOnChange(queries) ==
    /\ pc = "prepare_bindings"
    /\ \E query \in queries :
          LET r == prepare_bindings(query, blas_manager, geometry_manager)
              log == [FrameLogEmpty EXCEPT
                        !.objects_changed = query # blocks,
                        !.had_bind_group = voxel_bindings.bind_group # None]
          IN /\ blocks' = query
             /\ IF query = blocks
                THEN /\ voxel_bindings' = voxel_bindings
                     /\ frame_log' = log
                ELSE /\ voxel_bindings' =
                            [voxel_bindings EXCEPT !.bind_group = r.bind_group]
                     /\ frame_log' = [log EXCEPT !.tlas_builds = r.tlas_builds,
                                                 !.printed = r.printed]
    /\ pc' = "render"
    /\ UNCHANGED <<hostVars, voxel_types,
                   geometry_manager, blas_manager, gpu>>

\* the query is read by this system alone: the objects the host has alive in
\* this frame are the input of the step (any edit since the last frame)
PrepareBindingsOver(queries) ==
    /\ pc = "prepare_bindings"
    /\ \E query \in queries :
          LET r == prepare_bindings(query, blas_manager, geometry_manager)
          IN /\ blocks' = query
             /\ voxel_bindings' = [voxel_bindings EXCEPT !.bind_group = r.bind_group]
             /\ frame_log' = [tlas_builds |-> r.tlas_builds,
                              printed |-> r.printed,
                              objects_changed |-> query # blocks,
                              had_bind_group |-> voxel_bindings.bind_group # None]
    /\ pc' = "render"
    /\ UNCHANGED <<hostVars, voxel_types,
                   geometry_manager, blas_manager, gpu>>

PrepareBindings == PrepareBindingsOver(BlockQueries)

\* a host that spawns no object
PrepareBindingsNoBlocks == PrepareBindingsOver({<< >>})

\* the render graph runs and the frame ends
EndFrame ==
    /\ pc = "render"
    /\ pc' = "extract"
    /\ UNCHANGED <<hostVars, blocks, renderVars>>

\* the whole pipeline, with objects
Next ==
    \/ Extract
    \/ LoadMaterials
    \/ PrepareGeometry
    \/ PrepareBlas
    \/ PrepareAssets
    \/ GpuReady
    \/ CompactBlas
    \/ PrepareBindings
    \/ EndFrame

Spec == Init /\ [][Next]_vars

\* the asset pipeline of a host that spawns no object
NextAssets ==
    \/ ExtractAssets
    \/ PrepareMaterials
    \/ PrepareGeometry
    \/ PrepareBlas
    \/ PrepareAssets
    \/ GpuReady
    \/ CompactBlas
    \/ PrepareBindingsNoBlocks
    \/ EndFrame

SpecAssets == Init /\ [][NextAssets]_vars

\* the asset pipeline of a host that edits its VoxelTypes: the second type
\* gets its second voxel moved and a third one added, and back
VoxelTypeEdited ==
    [VoxelTypeAssets EXCEPT
       ![2].voxels = << [material |-> 1, position |-> <<0, 0, 0>>],
                        [material |-> 2, position |-> <<1, 1, 0>>],
                        [material |-> 1, position |-> <<0, 0, 1>>] >>]

ExtractEdited == ExtractOver(MaxAssetBlas, {VoxelTypeAssets, VoxelTypeEdited})

NextEdited ==
    \/ ExtractEdited
    \/ LoadMaterials
    \/ PrepareGeometry
    \/ PrepareBlas
    \/ PrepareAssets
    \/ GpuReady
    \/ CompactBlas
    \/ PrepareBindingsNoBlocks
    \/ EndFrame

SpecEdited == Init /\ [][NextEdited]_vars

----------------------------------------------------------------------------
(* The BlasManager alone: frames in which prepare_blas allocates the BLAS of
   newly extracted VoxelTypes of any size, or drops the BLAS of a removed
   one, and compact_blas runs once.  The other resources are not read by
   compact_blas and stay at their defaults; a type is extracted once. *)

\* the voxel counts of the types extracted
VoxelCounts == {1, 88889}

\* the BLAS objects prepare_blas allocated (the others are compacted copies)
Allocated(g) == {h \in 1..Len(g) : g[h].compact_state # "Compacted"}

InitCompact ==
    /\ pc = "ticked"
    /\ blocks = << >>
    /\ voxel_types = NoAssets
    /\ geometry_manager = GeometryManagerDefault
    /\ blas_manager = BlasManagerDefault
    /\ gpu = << >>
    /\ voxel_bindings = VoxelBindingsDefault
    /\ frame_log = FrameLogEmpty
    /\ app = AppInstalled
    /\ voxel_render = VoxelRenderDefault
    /\ view = ViewDefault
    /\ main_world = MainWorldDefault

\* prepare_blas on one extracted VoxelType of n voxels (24 * 3 vertex floats
\* and 36 indices a voxel in its own buffers); handles are given out in order
BuildBlas ==
    /\ pc = "ticked"
    /\ Cardinality(Allocated(gpu)) < MaxQueue
    /\ \E n \in VoxelCounts :
          LET id == Cardinality(Allocated(gpu)) + 1
              obj == allocate_blas(n * Len(VERTICES) * 4, n * Len(INDICES) * 4)
              handle == Len(gpu) + 1
          IN /\ gpu' = SubmitBlasBuilds(Append(gpu, obj), <<handle>>)
             /\ blas_manager' =
                   [blas_manager EXCEPT
                      !.blas = MapInsert(@, id, handle),
                      !.compaction_queue = Append(@, <<id, obj.vertex_count, FALSE>>)]
    /\ UNCHANGED <<hostVars, pc, blocks, voxel_types, geometry_manager,
                   voxel_bindings, frame_log>>

\* prepare_blas on one removed VoxelType
RemoveType ==
    /\ pc = "ticked"
    /\ \E t \in DOMAIN blas_manager.blas :
          blas_manager' = RemoveBlas(blas_manager, {t})
    /\ UNCHANGED <<hostVars, pc, blocks, voxel_types, geometry_manager, gpu,
                   voxel_bindings, frame_log>>

\* the frame goes on to compact_blas
BeginCompaction ==
    /\ pc = "ticked"
    /\ pc' = "compact_blas"
    /\ UNCHANGED <<hostVars, blocks, voxel_types, geometry_manager, blas_manager, gpu,
                   voxel_bindings, frame_log>>

CompactBlasTick == CompactBlasThen("ticked")

NextCompact ==
    \/ BuildBlas
    \/ RemoveType
    \/ BeginCompaction
    \/ GpuReady
    \/ CompactBlasTick

SpecCompact == InitCompact /\ [][NextCompact]_vars

\* every frame runs compact_blas, and the device retires every size query
FairSpecCompact ==
    /\ SpecCompact
    /\ WF_vars(BeginCompaction)
    /\ WF_vars(CompactBlasTick)
    /\ WF_vars(GpuReady)

----------------------------------------------------------------------------
(* The BlasManager alone, over frames in which the host may also change a
   VoxelType it created before: the asset is extracted again under the same
   id, at most once a frame, and prepare_blas allocates a new BLAS for it and
   pushes a new queue entry.  voxel_types holds what the frame extracted. *)

\* prepare_blas on one removed VoxelType: the removals are handled before
\* the extracted types are read
RemoveTypeFirst ==
    /\ pc = "ticked"
    /\ voxel_types.extracted = << >>
    /\ \E t \in DOMAIN blas_manager.blas :
          /\ blas_manager' = RemoveBlas(blas_manager, {t})
          /\ voxel_types' = [voxel_types EXCEPT !.removed = @ \cup {t}]
    /\ UNCHANGED <<hostVars, pc, blocks, geometry_manager, gpu,
                   voxel_bindings, frame_log>>

\* prepare_blas on one extracted VoxelType of n voxels, new or extracted
\* before
ExtractType ==
    /\ pc = "ticked"
    /\ Cardinality(Allocated(gpu)) < MaxQueue
    /\ \E id \in TypeIds \ Range(voxel_types.extracted), n \in VoxelCounts :
          LET obj == allocate_blas(n * Len(VERTICES) * 4, n * Len(INDICES) * 4)
              handle == Len(gpu) + 1
          IN /\ gpu' = SubmitBlasBuilds(Append(gpu, obj), <<handle>>)
             /\ blas_manager' =
                   [blas_manager EXCEPT
                      !.blas = MapInsert(@, id, handle),
                      !.compaction_queue = Append(@, <<id, obj.vertex_count, FALSE>>)]
             /\ voxel_types' = [voxel_types EXCEPT !.extracted = Append(@, id)]
    /\ UNCHANGED <<hostVars, pc, blocks, geometry_manager, voxel_bindings, frame_log>>

\* prepare_blas has returned and prepare_assets has drained the extracted
\* assets: the frame goes on to compact_blas
EndPrepareBlas ==
    /\ pc = "ticked"
    /\ pc' = "compact_blas"
    /\ voxel_types' = NoAssets
    /\ UNCHANGED <<hostVars, blocks, geometry_manager, blas_manager, gpu,
                   voxel_bindings, frame_log>>

NextReextract ==
    \/ RemoveTypeFirst
    \/ ExtractType
    \/ EndPrepareBlas
    \/ GpuReady
    \/ CompactBlasTick

SpecReextract == InitCompact /\ [][NextReextract]_vars

----------------------------------------------------------------------------
(* SpecPlugin: initialization of an App on any device.  NEVRPlugin is added,
   then App::finish runs Plugin::finish of each registered plugin in turn. *)

InitPlugin ==
    /\ pc = "extract"
    /\ blocks = << >>
    /\ voxel_types = NoAssets
    /\ geometry_manager = GeometryManagerDefault
    /\ blas_manager = BlasManagerDefault
    /\ gpu = << >>
    /\ voxel_bindings = VoxelBindingsDefault
    /\ frame_log = FrameLogEmpty
    /\ app \in {AppNew(features) : features \in SUBSET WgpuFeatures}
    /\ voxel_render = VoxelRenderDefault
    /\ view = ViewDefault
    /\ main_world = MainWorldDefault

renderState == <<pc, blocks, voxel_types, geometry_manager, blas_manager, gpu,
                 voxel_bindings, frame_log>>

\* App::add_plugins(NEVRPlugin)
AddPlugins ==
    /\ app.plugin_registry = << >>
    /\ app' = NEVRPlugin_build(app)
    /\ UNCHANGED <<renderState, voxel_render, view, main_world>>

\* the next Plugin::finish of App::finish is that of the plugin named
FinishNext(plugin) ==
    /\ ~app.panicked
    /\ app.finished < Len(app.plugin_registry)
    /\ app.plugin_registry[app.finished + 1] = plugin
    /\ app' = [PluginFinish(app, plugin) EXCEPT !.finished = @ + 1]
    /\ UNCHANGED <<renderState, voxel_render, view, main_world>>

FinishNEVRPlugin == FinishNext("NEVRPlugin")

FinishNEVRNodeRender == FinishNext("NEVRNodeRender")

FinishDenoiserPlugin == FinishNext("DenoiserPlugin")

NextPlugin ==
    \/ AddPlugins
    \/ FinishNEVRPlugin
    \/ FinishNEVRNodeRender
    \/ FinishDenoiserPlugin

SpecPlugin == InitPlugin /\ [][NextPlugin]_vars

----------------------------------------------------------------------------
(* SpecRender: the render system of the VoxelRender schedule, run once per
   frame, and the GPU retiring the work submitted for a slot. *)

\* frames of the VoxelRender schedule explored
MaxFrames == 7

\* one run of render; the descriptor sets exist or not
Render ==
    /\ Len(voxel_render.acquired) < MaxFrames
    /\ \E descriptor_sets \in BOOLEAN :
          voxel_render' = render(voxel_render, descriptor_sets)
    /\ UNCHANGED <<renderState, app, view, main_world>>

\* the GPU finishes the work submitted for a slot
GpuRetire ==
    /\ \E slot \in DOMAIN voxel_render.futures :
          /\ voxel_render.futures[slot] = "pending"
          /\ voxel_render.in_flight[slot] > 0
          /\ voxel_render' = [voxel_render EXCEPT !.futures[slot] = "retired",
                                                  !.in_flight[slot] = @ - 1]
    /\ UNCHANGED <<renderState, app, view, main_world>>

NextRender == Render \/ GpuRetire

SpecRender == Init /\ [][NextRender]_vars

----------------------------------------------------------------------------
(* SpecBuilds: the whole pipeline over visible objects at the origin, with the
   device executing the acceleration-structure builds the host submitted.  A
   wgpu queue executes the submissions in the order they were made; the host
   calls no poll or wait between a submit and the next use of the handle. *)

\* the device has executed the build (or the compacting copy) of a BLAS: it
\* reports a compacted size only for a BLAS it has built
BlasBuildDone(g, h) == g[h].build_done \/ g[h].compact_state = "Ready"

\* the BLAS handles of the instances of a TLAS
TlasBlas(tlas) == {tlas[i][1].blas : i \in {j \in 1..Len(tlas) : tlas[j] # None}}

\* the device executes the oldest BLAS build of the queue
GpuBlasBuilt ==
    /\ \E h \in 1..Len(gpu) :
          /\ gpu[h].built
          /\ ~BlasBuildDone(gpu, h)
          /\ \A older \in 1..(h - 1) : gpu[older].built => BlasBuildDone(gpu, older)
          /\ gpu' = [gpu EXCEPT ![h].build_done = TRUE]
    /\ UNCHANGED <<hostVars, pc, blocks, voxel_types,
                   geometry_manager, blas_manager, voxel_bindings, frame_log>>

\* the device executes the build of the TLAS of the bind group, after the
\* builds of the BLAS submitted before it
GpuTlasBuilt ==
    /\ voxel_bindings.bind_group # None
    /\ ~voxel_bindings.bind_group[1].tlas_build_done
    /\ \A h \in TlasBlas(voxel_bindings.bind_group[1].tlas) : BlasBuildDone(gpu, h)
    /\ voxel_bindings' =
          [voxel_bindings EXCEPT !.bind_group[1].tlas_build_done = TRUE]
    /\ UNCHANGED <<hostVars, pc, blocks, voxel_types,
                   geometry_manager, blas_manager, gpu, frame_log>>

\* the objects of a host that keeps them visible and at the origin
BlocksAtOrigin == {b \in Blocks : b.visible /\ b.transform = IdentityTransform}

PrepareBindingsAtOrigin == PrepareBindingsOver(SeqsUpTo(BlocksAtOrigin, MaxObjects))

NextBuilds ==
    \/ Extract
    \/ LoadMaterials
    \/ PrepareGeometry
    \/ PrepareBlas
    \/ PrepareAssets
    \/ GpuReady
    \/ CompactBlas
    \/ PrepareBindingsAtOrigin
    \/ EndFrame
    \/ GpuBlasBuilt
    \/ GpuTlasBuilt

SpecBuilds == Init /\ [][NextBuilds]_vars

----------------------------------------------------------------------------
(* SpecTransform: prepare_bindings over one visible object of any world
   matrix, in the first frame of a host that created one VoxelType and its
   materials. *)

\* world matrices, column-major: one non-zero entry at any place, all entries
\* different, and the two of Transforms
TransformInputs ==
    {[i \in 1..16 |-> IF i = k THEN v ELSE 0] : k \in 1..16, v \in 1..7}
       \cup {[i \in 1..16 |-> i]} \cup Transforms

\* the render world when prepare_bindings runs in that frame
InitTransform ==
    LET types == ExtractedAssets(<<1>>, {}, VoxelTypeAssets)
        gm == prepare_geometry(
                  prepare_materials(GeometryManagerDefault, <<1, 2>>), types).gm
        built == prepare_blas(BlasManagerDefault, << >>, gm, types)
        ticked == compact_blas(built.bm, built.gpu, {})
    IN /\ pc = "prepare_bindings"
       /\ blocks = << >>
       /\ voxel_types = NoAssets
       /\ geometry_manager = gm
       /\ blas_manager = ticked.bm
       /\ gpu = ticked.gpu
       /\ voxel_bindings = VoxelBindingsDefault
       /\ frame_log = FrameLogEmpty
       /\ app = AppInstalled
       /\ voxel_render = VoxelRenderDefault
       /\ view = ViewDefault
       /\ main_world = MainWorldDefault

PrepareBindingsTransformed ==
    PrepareBindingsOver(
        {<<[voxel_type |-> 1, transform |-> m, visible |-> TRUE]>> :
            m \in TransformInputs})

SpecTransform == InitTransform /\ [][PrepareBindingsTransformed]_vars

----------------------------------------------------------------------------
(* SpecNode: the frames of a host with one VoxelType and no denoiser, to the
   end of the render graph. *)

MaxNodeBlas == 1

Viewports == {None, Some(<<1921, 1080>>)}

\* ViewUniforms::uniforms.binding()
ViewUniformsBindings == {None, Some("view uniforms")}

\* the VoxelSkybox resource: absent, or there with or without its GpuImage
Skyboxes == {None, Some(TRUE), Some(FALSE)}

ExtractNode == ExtractUpTo(MaxNodeBlas)

CompactBlasView == CompactBlasThen("prepare_view_target")

\* the camera and the VoxelDenoiser extracted for the frame are read first by
\* this system: they are the input of the step; the graph has not run in
\* the frame yet
PrepareViewTargetOver(viewports, denoisers) ==
    /\ pc = "prepare_view_target"
    /\ \E viewport \in viewports, denoiser \in denoisers :
          view' = [prepare_view_target(view, viewport, denoiser) EXCEPT
                      !.resources = None, !.node = None, !.denoiser_node = None]
    /\ pc' = "prepare_bindings"
    /\ UNCHANGED <<app, voxel_render, main_world, blocks, renderVars>>

PrepareViewTarget == PrepareViewTargetOver(Viewports, {VoxelDenoiserNone})

\* the render graph of the view runs NEVRNode, then DenoiserNode, and the
\* frame ends; a pass of NEVRNode writes the image of the objects to
\* VoxelViewTarget::output
RenderGraphOver(pipeline_sets) ==
    /\ pc = "render"
    /\ \E pipelines \in pipeline_sets, view_uniforms \in ViewUniformsBindings,
          skybox \in Skyboxes, overflow_checks \in OverflowChecks :
          LET node == NEVRNode_run(voxel_bindings.bind_group, pipelines,
                                   view.viewport, view_uniforms, skybox)
              traced == [view EXCEPT
                            !.resources = Some([pipelines |-> pipelines,
                                                view_uniforms |-> view_uniforms,
                                                skybox |-> skybox]),
                            !.node = Some(node),
                            !.output = IF node.passes # << >>
                                       THEN <<"traced", blocks>> ELSE @]
              denoised == DenoiserNode_run(traced, pipelines, view.viewport,
                                           view_uniforms, overflow_checks)
          IN view' = [denoised.view EXCEPT !.denoiser_node = Some(denoised.run)]
    /\ pc' = "extract"
    /\ UNCHANGED <<app, voxel_render, main_world, blocks, renderVars>>

RenderGraph == RenderGraphOver(SUBSET {"pipeline", "skybox_pipeline"})

\* the host has no object, or one of the first type
PrepareBindingsOne ==
    PrepareBindingsOver(
        {<< >>, <<[voxel_type |-> 1, transform |-> IdentityTransform,
                   visible |-> TRUE]>>})

NextNode ==
    \/ ExtractNode
    \/ LoadMaterials
    \/ PrepareGeometry
    \/ PrepareBlas
    \/ PrepareAssets
    \/ GpuReady
    \/ CompactBlasView
    \/ PrepareViewTarget
    \/ PrepareBindingsOne
    \/ RenderGraph

SpecNode == Init /\ [][NextNode]_vars

----------------------------------------------------------------------------
(* SpecDenoiser: the frames of a host with no VoxelType that sets the
   VoxelDenoiser to any filter size. *)

MaxSmallFilter == 33

\* u32::BITS
u32_BITS == 32

\* 2^k + d as a u32, for 6 <= k < 32 and d in -1..1
NextToPowerOfTwo(k, d) ==
    IF k < 16 THEN <<0, 2 ^ k + d>>
    ELSE IF d = -1 THEN <<2 ^ (k - 16) - 1, U32Half - 1>>
    ELSE <<2 ^ (k - 16), d>>

\* NonZeroU32 filter sizes: the small ones, those next to a power of two,
\* and the largest
FilterSizes ==
    {u32(n) : n \in 1..MaxSmallFilter}
       \cup {NextToPowerOfTwo(k, d) : k \in 6..(u32_BITS - 1), d \in {-1, 0, 1}}
       \cup {u32_MAX}

Denoisers ==
    {VoxelDenoiserNone, VoxelDenoiserSimple} \cup {ATrous(s) : s \in FilterSizes}

ExtractNothing == ExtractUpTo(0)

\* the camera has a viewport
PrepareViewTargetDenoised == PrepareViewTargetOver(Viewports \ {None}, Denoisers)

\* the pipelines of NEVRNode are compiled, those of DenoiserNode may be
RenderGraphDenoised ==
    RenderGraphOver({{"pipeline", "skybox_pipeline"},
                     {"pipeline", "skybox_pipeline",
                      "simple_pipeline", "a_trous_pipeline"}})

NextDenoiser ==
    \/ ExtractNothing
    \/ LoadMaterials
    \/ PrepareGeometry
    \/ PrepareBlas
    \/ PrepareAssets
    \/ CompactBlasView
    \/ PrepareViewTargetDenoised
    \/ PrepareBindingsNoBlocks
    \/ RenderGraphDenoised

SpecDenoiser == Init /\ [][NextDenoiser]_vars

----------------------------------------------------------------------------
(* SpecSchedule: the frames as the Render schedule and the render graph run
   them. Here pc is the sequence of the stages that ran in the frame; a
   stage runs once all the stages ordered before it have run. *)

\* the system set of each system NEVRPlugin::finish adds; the render graph
\* runs in RenderSystems::Render
SystemSet ==
    [prepare_view_target |-> "PrepareResources",
     prepare_materials |-> "PrepareAssets",
     prepare_geometry |-> "PrepareAssets",
     prepare_blas |-> "PrepareAssets",
     compact_blas |-> "PrepareAssets",
     prepare_assets |-> "PrepareAssets",
     prepare_bindings |-> "PrepareBindGroups",
     NEVRNodeLabel |-> "Render",
     DenoiserLabel |-> "Render"]

\* the order bevy configures between the sets of RenderSystems
RenderSystemsOrderNone == << >>

RenderSystemsOrder ==
    <<"PrepareAssets", "PrepareResources", "PrepareBindGroups", "Render">>

\* the place of a set in that order (0 when the order does not hold it)
SetPlace(set) ==
    IF \E i \in 1..Len(RenderSystemsOrder) : RenderSystemsOrder[i] = set
    THEN CHOOSE i \in 1..Len(RenderSystemsOrder) : RenderSystemsOrder[i] = set
    ELSE 0

\* .chain(), .after() and .before() of NEVRPlugin::finish
SystemEdges ==
    {<<"prepare_materials", "prepare_geometry">>,
     <<"prepare_geometry", "prepare_assets">>,
     <<"prepare_geometry", "prepare_blas">>,
     <<"prepare_blas", "prepare_assets">>,
     <<"prepare_blas", "compact_blas">>}

Stages == DOMAIN SystemSet

\* the stages ordered before a stage: by an edge between systems, by an edge
\* of the render graph, or by the order of their sets
OrderedBefore(stage) ==
    {s \in Stages :
        \/ <<s, stage>> \in SystemEdges
        \/ <<s, stage>> \in app.graph_edges
        \/ SetPlace(SystemSet[s]) < SetPlace(SystemSet[stage])}

CanRun(stage) ==
    /\ "panicked" \notin Range(pc)
    /\ stage \notin Range(pc)
    /\ OrderedBefore(stage) \subseteq Range(pc)

InitSchedule ==
    /\ pc = << >>
    /\ blocks = << >>
    /\ voxel_types = NoAssets
    /\ geometry_manager = GeometryManagerDefault
    /\ blas_manager = BlasManagerDefault
    /\ gpu = << >>
    /\ voxel_bindings = VoxelBindingsDefault
    /\ frame_log = FrameLogEmpty
    /\ app = AppInstalled
    /\ voxel_render = VoxelRenderDefault
    /\ view = ViewDefault
    /\ main_world = MainWorldDefault

\* the frame is over: the asset events of the next one are extracted
ExtractScheduled ==
    /\ Range(pc) = Stages
    /\ \E ts \in DistinctSeqs(TypeIds),
          rs \in SUBSET (DOMAIN geometry_manager.object_map) :
          /\ Len(gpu) + Len(ts) <= MaxBlas
          /\ voxel_types' = ExtractedAssets(ts, rs, VoxelTypeAssets)
    /\ frame_log' = FrameLogEmpty
    /\ pc' = << >>
    /\ UNCHANGED <<hostVars, blocks, geometry_manager, blas_manager, gpu,
                   voxel_bindings>>

RunPrepareMaterials ==
    /\ CanRun("prepare_materials")
    /\ \E extracted \in {<< >>, <<1, 2>>} :
          geometry_manager' = prepare_materials(geometry_manager, extracted)
    /\ pc' = Append(pc, "prepare_materials")
    /\ UNCHANGED <<hostVars, blocks, voxel_types,
                   blas_manager, gpu, voxel_bindings, frame_log>>

RunPrepareGeometry ==
    /\ CanRun("prepare_geometry")
    /\ LET r == prepare_geometry(geometry_manager, voxel_types)
       IN /\ geometry_manager' = r.gm
          /\ pc' = IF r.panicked THEN Append(pc, "panicked")
                   ELSE Append(pc, "prepare_geometry")
    /\ UNCHANGED <<hostVars, blocks, voxel_types,
                   blas_manager, gpu, voxel_bindings, frame_log>>

RunPrepareBlas ==
    /\ CanRun("prepare_blas")
    /\ LET r == prepare_blas(blas_manager, gpu, geometry_manager, voxel_types)
       IN /\ blas_manager' = r.bm
          /\ gpu' = r.gpu
          /\ pc' = IF r.panicked THEN Append(pc, "panicked")
                   ELSE Append(pc, "prepare_blas")
    /\ UNCHANGED <<hostVars, blocks, voxel_types,
                   geometry_manager, voxel_bindings, frame_log>>

RunPrepareAssets ==
    /\ CanRun("prepare_assets")
    /\ voxel_types' = NoAssets
    /\ pc' = Append(pc, "prepare_assets")
    /\ UNCHANGED <<hostVars, blocks, geometry_manager, blas_manager, gpu,
                   voxel_bindings, frame_log>>

\* the size queries the device has answered by now are those of `now`
RunCompactBlas ==
    /\ CanRun("compact_blas")
    /\ \E now \in SUBSET Queued(blas_manager) :
          \E r \in {compact_blas(blas_manager, gpu, now)} :
             /\ blas_manager' = r.bm
             /\ gpu' = r.gpu
    /\ pc' = Append(pc, "compact_blas")
    /\ UNCHANGED <<hostVars, blocks, voxel_types,
                   geometry_manager, voxel_bindings, frame_log>>

RunPrepareViewTarget ==
    /\ CanRun("prepare_view_target")
    /\ view' = [prepare_view_target(view, Some(<<1921, 1080>>), VoxelDenoiserNone)
                   EXCEPT !.resources = None, !.node = None, !.denoiser_node = None]
    /\ pc' = Append(pc, "prepare_view_target")
    /\ UNCHANGED <<app, voxel_render, main_world, blocks, renderVars>>

RunPrepareBindings ==
    /\ CanRun("prepare_bindings")
    /\ \E query \in SeqsUpTo(BlocksAtOrigin, MaxObjects) :
          LET r == prepare_bindings(query, blas_manager, geometry_manager)
          IN /\ blocks' = query
             /\ voxel_bindings' = [voxel_bindings EXCEPT !.bind_group = r.bind_group]
             /\ frame_log' = [tlas_builds |-> r.tlas_builds,
                              printed |-> r.printed,
                              objects_changed |-> query # blocks,
                              had_bind_group |-> voxel_bindings.bind_group # None]
    /\ pc' = Append(pc, "prepare_bindings")
    /\ UNCHANGED <<hostVars, voxel_types,
                   geometry_manager, blas_manager, gpu>>

\* the pipelines are compiled and the view uniforms are there
RunNEVRNode ==
    /\ CanRun("NEVRNodeLabel")
    /\ LET node == NEVRNode_run(voxel_bindings.bind_group,
                                {"pipeline", "skybox_pipeline"},
                                view.viewport, Some("view uniforms"), None)
       IN view' = [view EXCEPT !.node = Some(node),
                               !.output = IF node.passes # << >>
                                          THEN <<"traced", blocks>> ELSE @]
    /\ pc' = Append(pc, "NEVRNodeLabel")
    /\ UNCHANGED <<app, voxel_render, main_world, blocks, renderVars>>

RunDenoiserNode ==
    /\ CanRun("DenoiserLabel")
    /\ \E overflow_checks \in OverflowChecks :
          LET denoised == DenoiserNode_run(view, {"simple_pipeline", "a_trous_pipeline"},
                                           view.viewport, Some("view uniforms"),
                                           overflow_checks)
          IN view' = [denoised.view EXCEPT !.denoiser_node = Some(denoised.run)]
    /\ pc' = Append(pc, "DenoiserLabel")
    /\ UNCHANGED <<app, voxel_render, main_world, blocks, renderVars>>

NextSchedule ==
    \/ ExtractScheduled
    \/ RunPrepareMaterials
    \/ RunPrepareGeometry
    \/ RunPrepareBlas
    \/ RunPrepareAssets
    \/ RunCompactBlas
    \/ RunPrepareViewTarget
    \/ RunPrepareBindings
    \/ RunNEVRNode
    \/ RunDenoiserNode

SpecSchedule == InitSchedule /\ [][NextSchedule]_vars

----------------------------------------------------------------------------
(* reset_frame_count (lib.rs 526-542), a system of PostUpdate in the main
   world.  Every frame the host may touch the components of the VoxelCameras;
   the system then reads their change ticks in the order of the query. *)

MaxCameras == 2

\* Ref::is_changed() of the three components the query fetches
CameraTicks == [camera : BOOLEAN, transform : BOOLEAN, projection : BOOLEAN]

\* some values of FrameCount, the largest among them
FrameCounts == {<<0, 0>>, <<0, 1>>, <<1, 0>>, u32_MAX}

\* the for loop of reset_frame_count from the i-th camera of the query on
RECURSIVE reset_frame_count_loop(_, _, _)
reset_frame_count_loop(cameras, i, changed) ==
    IF i > Len(cameras) THEN changed
    ELSE reset_frame_count_loop(cameras, i + 1,
             cameras[i].camera \/ cameras[i].transform \/ cameras[i].projection)

\* the value of FrameCount after reset_frame_count
reset_frame_count(cameras, frame_count) ==
    IF reset_frame_count_loop(cameras, 1, FALSE) THEN u32_MAX ELSE frame_count

InitFrameCount ==
    /\ pc = "update"
    /\ blocks = << >>
    /\ voxel_types = NoAssets
    /\ geometry_manager = GeometryManagerDefault
    /\ blas_manager = BlasManagerDefault
    /\ gpu = << >>
    /\ voxel_bindings = VoxelBindingsDefault
    /\ frame_log = FrameLogEmpty
    /\ app = AppInstalled
    /\ voxel_render = VoxelRenderDefault
    /\ view = ViewDefault
    /\ main_world \in [cameras : {<< >>}, frame_count : FrameCounts]

\* the systems of the frame before PostUpdate: cameras are spawned, despawned
\* and their components written
UpdateCameras ==
    /\ pc = "update"
    /\ \E cameras \in SeqsUpTo(CameraTicks, MaxCameras) :
          main_world' = [main_world EXCEPT !.cameras = cameras]
    /\ pc' = "reset_frame_count"
    /\ UNCHANGED <<blocks, renderVars, app, voxel_render, view>>

ResetFrameCount ==
    /\ pc = "reset_frame_count"
    /\ main_world' = [main_world EXCEPT
          !.frame_count = reset_frame_count(main_world.cameras, @)]
    /\ pc' = "update"
    /\ UNCHANGED <<blocks, renderVars, app, voxel_render, view>>

NextFrameCount == UpdateCameras \/ ResetFrameCount

SpecFrameCount == InitFrameCount /\ [][NextFrameCount]_vars

----------------------------------------------------------------------------
(* Properties of prepare_geometry, checked under SpecAssets *)

IsPrefix(s, t) == Len(s) <= Len(t) /\ SubSeq(t, 1, Len(s)) = s

\* the contents of a device buffer only grow at the end
BufferGrows(old, new) ==
    /\ IsPrefix(old.values, new.values)
    /\ old.buffer # None => new.buffer # None /\ IsPrefix(old.buffer[1], new.buffer[1])

\* the part of the GeometryManager that is shared between the types
SharedState(gm) ==
    << gm.vertices, gm.indices, gm.normals, gm.material_map,
       gm.added_types, gm.object_map, gm.index_map, gm.material_index_map >>

\* C1: from every state the pipeline reaches and for every sequence S of
\* VoxelType handles, a run of prepare_geometry on S that completes, followed
\* by a second run on S, leaves the shared vertex, index, normal and
\* material-map buffers, added_types, object_map, index_map and
\* material_index_map as the first run left them.
C1_IdempotentIngestion ==
    pc # "panicked" =>
        \A ts \in DistinctSeqs(TypeIds) :
            LET S == ExtractedAssets(ts, {}, VoxelTypeAssets)
                first == prepare_geometry(geometry_manager, S)
                second == prepare_geometry(first.gm, S)
            IN ~first.panicked =>
                  /\ ~second.panicked
                  /\ ~second.new_additions
                  /\ SharedState(second.gm) = SharedState(first.gm)

\* a frame whose extraction brings new types to a store that already holds
\* geometry: the first run appends, the second must not
C1_Witness ==
    /\ pc = "prepare_geometry"
    /\ geometry_manager.added_types # << >>
    /\ LET first == prepare_geometry(geometry_manager, voxel_types)
       IN /\ ~first.panicked
          /\ Len(first.gm.added_types) > Len(geometry_manager.added_types)

\* what one voxel adds to each shared buffer: 24 vec4 vertices and normals,
\* 12 uvec4 triangles, 12 material indices
VertexFloatsPerVoxel == (Len(VERTICES) \div 3) * 4
IndexWordsPerVoxel == (Len(INDICES) \div 3) * 4
MaterialWordsPerVoxel == Len(INDICES) \div 3

VoxelCount(t) == Len(VoxelTypeAssets[t].voxels)

RECURSIVE VoxelsBefore(_, _)
VoxelsBefore(added_types, k) ==
    IF k <= 1 THEN 0
    ELSE VoxelsBefore(added_types, k - 1) + VoxelCount(added_types[k - 1])

\* the range [start, end) of the k-th ingested type in each shared buffer; the
\* index and material-map ranges start at the recorded offsets
VertexRange(gm, k) ==
    LET start == VoxelsBefore(gm.added_types, k) * VertexFloatsPerVoxel
    IN <<start, start + VoxelCount(gm.added_types[k]) * VertexFloatsPerVoxel>>

IndexRange(gm, k) ==
    LET start == gm.index_map[k] * 4
    IN <<start, start + VoxelCount(gm.added_types[k]) * IndexWordsPerVoxel>>

MaterialMapRange(gm, k) ==
    LET start == gm.material_index_map[k]
    IN <<start, start + VoxelCount(gm.added_types[k]) * MaterialWordsPerVoxel>>

RangesOrdered(gm) ==
    LET n == Len(gm.added_types)
    IN /\ Len(gm.index_map) = n
       /\ Len(gm.material_index_map) = n
       /\ \A k \in 1..n :
             /\ gm.object_map[gm.added_types[k]] = k - 1
             /\ IF k < n
                THEN /\ VertexRange(gm, k)[2] <= VertexRange(gm, k + 1)[1]
                     /\ IndexRange(gm, k)[2] <= IndexRange(gm, k + 1)[1]
                     /\ MaterialMapRange(gm, k)[2] <= MaterialMapRange(gm, k + 1)[1]
                ELSE /\ VertexRange(gm, k)[2] <= Len(gm.vertices.values)
                     /\ VertexRange(gm, k)[2] <= Len(gm.normals.values)
                     /\ IndexRange(gm, k)[2] <= Len(gm.indices.values)
                     /\ MaterialMapRange(gm, k)[2] <= Len(gm.material_map.values)

RangesStable(old, new) ==
    /\ BufferGrows(old.vertices, new.vertices)
    /\ BufferGrows(old.indices, new.indices)
    /\ BufferGrows(old.normals, new.normals)
    /\ BufferGrows(old.material_map, new.material_map)
    /\ IsPrefix(old.added_types, new.added_types)
    /\ IsPrefix(old.index_map, new.index_map)
    /\ IsPrefix(old.material_index_map, new.material_index_map)
    /\ \A t \in DOMAIN old.object_map :
          t \in DOMAIN new.object_map /\ new.object_map[t] = old.object_map[t]

\* C2: the ranges of the ingested types lie in the shared vertex, index,
\* normal and material-map buffers in the order of first ingestion, a range
\* ending at or before the start of the next; and no step (an ingestion, a
\* removal, a re-ingestion) changes the offsets of a recorded type or the
\* contents of a shared buffer below its old end.
C2_AppendOnly ==
    /\ [](pc # "panicked" => RangesOrdered(geometry_manager))
    /\ [][RangesStable(geometry_manager, geometry_manager')]_vars

\* A was ingested before B in earlier frames, and this frame removed A and
\* extracted it again: prepare_geometry has just run
C2_Witness ==
    /\ pc = "prepare_blas"
    /\ Len(geometry_manager.added_types) = 2
    /\ voxel_types.extracted = << geometry_manager.added_types[1] >>
    /\ voxel_types.removed = { geometry_manager.added_types[1] }

----------------------------------------------------------------------------
(* Properties of prepare_bindings, checked under Spec.  frame_log holds what
   prepare_bindings did in the current frame until the next extraction, and
   no system after it writes the managers: at pc = "render" they are as
   prepare_bindings saw them. *)

TlasBuilt == frame_log.tlas_builds # << >>
BuiltTlas == frame_log.tlas_builds[1]
Instances(tlas) == {i \in 1..Len(tlas) : tlas[i] # None}

HasBlas(block) == block.voxel_type \in DOMAIN blas_manager.blas
Eligible(block) == block.visible /\ HasBlas(block)

AllBuffersExist(gm) ==
    /\ gm.vertices.buffer # None
    /\ gm.indices.buffer # None
    /\ gm.normals.buffer # None
    /\ gm.materials.buffer # None
    /\ gm.material_map.buffer # None

\* C3: the TLAS built by prepare_bindings holds no instance for an object
\* whose VoxelType has no entry in the BLAS map when prepare_bindings runs:
\* every instance refers to the map's BLAS of the type of some object, and
\* there are no more instances than objects whose type has an entry.
C3_BlasReadinessGating ==
    pc = "render" /\ TlasBuilt =>
        /\ \A i \in Instances(BuiltTlas) :
              \E j \in 1..Len(blocks) :
                 /\ HasBlas(blocks[j])
                 /\ BuiltTlas[i][1].blas = blas_manager.blas[blocks[j].voxel_type]
        /\ Cardinality(Instances(BuiltTlas))
              <= Cardinality({j \in 1..Len(blocks) : HasBlas(blocks[j])})

\* a TLAS was built while a visible object had no BLAS and another had one
C3_Witness ==
    /\ pc = "render"
    /\ TlasBuilt
    /\ Instances(BuiltTlas) # {}
    /\ \E j \in 1..Len(blocks) : blocks[j].visible /\ ~HasBlas(blocks[j])

SharedBuffers == {"vertices", "indices", "normals", "materials", "material_map"}
WithoutBuffer(gm, f) == [gm EXCEPT ![f].buffer = None]

\* C5: after prepare_bindings, bind_group is Some exactly when the shared
\* vertex, index, normal, material and material-map buffers all exist and
\* there is at least one object; and prepare_bindings on the same inputs with
\* any one buffer absent, or with no object, gives None.
C5_BindingCompleteness ==
    /\ pc = "render" =>
          (voxel_bindings.bind_group # None
              <=> (blocks # << >> /\ AllBuffersExist(geometry_manager)))
    /\ \A f \in SharedBuffers :
          prepare_bindings(blocks, blas_manager,
                           WithoutBuffer(geometry_manager, f)).bind_group = None
    /\ prepare_bindings(<< >>, blas_manager, geometry_manager).bind_group = None

\* prepare_bindings produced a bind group
C5_Witness ==
    /\ pc = "render"
    /\ voxel_bindings.bind_group # None
    /\ blocks # << >>
    /\ AllBuffersExist(geometry_manager)

DependencyMissing(query, gm) == query = << >> \/ ~AllBuffersExist(gm)

\* C6, as the specification states it: when prepare_bindings finds a
\* dependency missing (no object, or no vertex, index, normal, material or
\* material-map buffer), the binding set active before the call is still
\* active after it.
C6_PreviousBindingKept ==
    [][(pc = "prepare_bindings" /\ DependencyMissing(blocks', geometry_manager))
          => voxel_bindings' = voxel_bindings]_vars

\* C6, as the code has it: when prepare_bindings finds a dependency missing
\* it leaves no binding set active (bind_group is None after the call,
\* whatever it was before), submits no TLAS build and prints one diagnostic.
C6_BindingCleared ==
    [][(pc = "prepare_bindings" /\ DependencyMissing(blocks', geometry_manager))
          => /\ voxel_bindings'.bind_group = None
             /\ frame_log'.tlas_builds = << >>
             /\ Len(frame_log'.printed) = 1]_vars

\* a bind group was active, and the call that found a dependency missing
\* cleared it
C6_Witness ==
    /\ pc = "render"
    /\ frame_log.had_bind_group
    /\ DependencyMissing(blocks, geometry_manager)
    /\ voxel_bindings.bind_group = None

\* C7, as the specification states it: with no object, prepare_bindings
\* still builds a TLAS with 0 instances and an empty metadata buffer and
\* reports no error.
C7_EmptyTlasBuilt ==
    pc = "render" /\ blocks = << >> =>
        /\ frame_log.tlas_builds = << CreateTlas(0) >>
        /\ frame_log.printed = << >>
        /\ voxel_bindings.bind_group # None
        /\ voxel_bindings.bind_group[1].objects = << >>

\* C7, as the code has it: with no object, prepare_bindings prints
\* "no blocks", builds no TLAS and leaves bind_group None; a TLAS of 0
\* instances with an empty metadata buffer is built when there are objects,
\* none of them eligible, and the shared buffers exist.
C7_NoBlocksSkipsBuild ==
    pc = "render" =>
        /\ blocks = << >> =>
              /\ frame_log.tlas_builds = << >>
              /\ frame_log.printed = << "no blocks" >>
              /\ voxel_bindings.bind_group = None
        /\ (/\ blocks # << >>
            /\ AllBuffersExist(geometry_manager)
            /\ \A j \in 1..Len(blocks) : ~Eligible(blocks[j])) =>
              /\ frame_log.tlas_builds = << CreateTlas(Len(blocks)) >>
              /\ frame_log.printed = << >>
              /\ voxel_bindings.bind_group # None
              /\ voxel_bindings.bind_group[1].objects = << >>

\* prepare_bindings ran with no object while every shared buffer existed
C7_Witness ==
    /\ pc = "render"
    /\ blocks = << >>
    /\ AllBuffersExist(geometry_manager)
    /\ frame_log.printed = << "no blocks" >>

\* the record of a type: its index offset and its material offset
ObjectRecord(gm, t) ==
    [index |-> gm.index_map[gm.object_map[t] + 1],
     material_id |-> gm.material_index_map[gm.object_map[t] + 1]]

\* row r, column c of the world matrix m (column-major)
MatrixEntry(m, r, c) == m[4 * (c - 1) + r]

\* C8: a TLAS built from k eligible objects (visible, with a BLAS entry) has
\* its instances in slots 0..k-1 and no other; instance i is the i-th
\* eligible object in query order: it refers to the BLAS of its type, has
\* custom index i and the top three rows of the world matrix, row-major; the
\* metadata buffer has k records, record i holding the index offset and the
\* material offset of that type.  Hidden and BLAS-less objects take no slot,
\* and objects that share a type share its BLAS.
C8_InstanceLayout ==
    pc = "render" /\ TlasBuilt =>
        LET tlas == BuiltTlas
            objects == voxel_bindings.bind_group[1].objects
            el == SelectSeq(blocks, Eligible)
            k == Len(el)
        IN /\ voxel_bindings.bind_group[1].tlas = tlas
           /\ Len(tlas) = Len(blocks)
           /\ Instances(tlas) = 1..k
           /\ Len(objects) = k
           /\ \A i \in 1..k :
                 /\ tlas[i][1].blas = blas_manager.blas[el[i].voxel_type]
                 /\ tlas[i][1].custom_index = i - 1
                 /\ \A r \in 1..3, c \in 1..4 :
                       tlas[i][1].transform[4 * (r - 1) + c]
                          = MatrixEntry(el[i].transform, r, c)
                 /\ objects[i] = ObjectRecord(geometry_manager, el[i].voxel_type)

\* two visible objects of one type, at different places, both in the TLAS
C8_Witness ==
    /\ pc = "render"
    /\ TlasBuilt
    /\ Len(blocks) = 2
    /\ Eligible(blocks[1]) /\ Eligible(blocks[2])
    /\ blocks[1].voxel_type = blocks[2].voxel_type
    /\ blocks[1].transform # blocks[2].transform

\* the types that were ingested and whose geometry a removal took away
RemovedTypes ==
    {t \in DOMAIN geometry_manager.object_map :
        t \notin DOMAIN geometry_manager.geometries_vertices}

VisibleNotRemoved(block) ==
    /\ block.visible
    /\ block.voxel_type \in DOMAIN geometry_manager.geometries_vertices

\* C9: when an object refers to a VoxelType that was removed, the frame
\* reaches the end of prepare_bindings; with the buffers present a TLAS is
\* built, and it has an instance and a metadata record for each visible
\* object of a type that was not removed, in query order, and none for the
\* objects of the removed type.
C9_RemovedTypeExcluded ==
    pc = "render" /\ (\E j \in 1..Len(blocks) : blocks[j].voxel_type \in RemovedTypes) =>
        /\ AllBuffersExist(geometry_manager) => TlasBuilt
        /\ TlasBuilt =>
              LET kept == SelectSeq(blocks, VisibleNotRemoved)
                  objects == voxel_bindings.bind_group[1].objects
              IN /\ Instances(BuiltTlas) = 1..Len(kept)
                 /\ Len(objects) = Len(kept)
                 /\ \A i \in 1..Len(kept) :
                       /\ BuiltTlas[i][1].blas = blas_manager.blas[kept[i].voxel_type]
                       /\ objects[i] = ObjectRecord(geometry_manager, kept[i].voxel_type)

\* a visible object of a removed type next to an object that kept its instance
C9_Witness ==
    /\ pc = "render"
    /\ TlasBuilt
    /\ Cardinality(Instances(BuiltTlas)) = 1
    /\ \E j \in 1..Len(blocks) :
          blocks[j].visible /\ blocks[j].voxel_type \in RemovedTypes

\* C10, as the specification states it: in a frame in which no object was
\* added, removed, moved or had its visibility changed, no TLAS build is
\* submitted and the binding set is left as it was.
C10_NoRebuildWithoutChange ==
    [][(pc = "prepare_bindings" /\ blocks' = blocks)
          => /\ frame_log'.tlas_builds = << >>
             /\ voxel_bindings' = voxel_bindings]_vars

\* C10, as the code has it: prepare_bindings runs in every frame; in a frame
\* in which no object changed it still submits one build of a new TLAS with
\* a slot per object and makes a new bind group from it when there is an
\* object and every shared buffer exists, and it clears the bind group
\* otherwise.
C10_RebuiltEveryFrame ==
    [][(pc = "prepare_bindings" /\ blocks' = blocks)
          => IF blocks # << >> /\ AllBuffersExist(geometry_manager)
             THEN /\ Len(frame_log'.tlas_builds) = 1
                  /\ Len(frame_log'.tlas_builds[1]) = Len(blocks)
                  /\ voxel_bindings'.bind_group # None
                  /\ voxel_bindings'.bind_group[1].tlas = frame_log'.tlas_builds[1]
             ELSE /\ frame_log'.tlas_builds = << >>
                  /\ voxel_bindings'.bind_group = None]_vars

\* a frame with the objects of the frame before, a bind group active at its
\* start, in which a TLAS build was submitted all the same
C10_Witness ==
    /\ pc = "render"
    /\ blocks # << >>
    /\ ~frame_log.objects_changed
    /\ frame_log.had_bind_group
    /\ TlasBuilt

----------------------------------------------------------------------------
(* Properties of compact_blas, checked under FairSpecCompact *)

CompactionDone ==
    /\ blas_manager.compaction_queue = << >>
    /\ \A t \in DOMAIN blas_manager.blas :
          gpu[blas_manager.blas[t]].compact_state = "Compacted"

\* a call of compact_blas in which no poll found a query still in flight
AllPollsReady ==
    /\ pc = "compact_blas"
    /\ pc' = "ticked"
    /\ \A h \in Queued(blas_manager) : gpu'[h].compact_state # "Waiting"

\* C4: when every frame calls compact_blas and every compaction-size query
\* eventually retires, the compaction queue eventually is and stays empty
\* with every queued VoxelType that is still in the map holding its compacted
\* copy (whatever the costs of the entries); and a call whose polls all report
\* ready shortens a non-empty queue by at least one entry, so that polls that
\* report ready at once empty it within as many calls as it had entries.
C4_CompactionConvergence ==
    /\ <>[]CompactionDone
    /\ [][(AllPollsReady /\ blas_manager.compaction_queue # << >>)
             => Len(blas_manager'.compaction_queue)
                   < Len(blas_manager.compaction_queue)]_vars

\* two types compacted, the queue empty
C4_Witness ==
    /\ pc = "ticked"
    /\ CompactionDone
    /\ Cardinality(DOMAIN blas_manager.blas) >= 2

----------------------------------------------------------------------------
(* Properties of one call of compact_blas, checked under SpecCompact *)

\* the positions of the queue entries whose VoxelType holds the BLAS h
EntriesOf(bm, h) ==
    {i \in 1..Len(bm.compaction_queue) :
        /\ bm.compaction_queue[i][1] \in DOMAIN bm.blas
        /\ bm.blas[bm.compaction_queue[i][1]] = h}

\* the calls of compact_blas the current state allows, one for each set of
\* size queries that retire during the call, with what the call returns
CompactBlasCalls ==
    {[now |-> n, r |-> compact_blas(blas_manager, gpu, n)] :
        n \in SUBSET Queued(blas_manager)}

\* no poll of this call can report ready
NothingReady(call) ==
    /\ call.now = {}
    /\ \A h \in Queued(blas_manager) : gpu[h].compact_state # "Ready"

\* C11: a call of compact_blas, from every state and whatever the polls
\* report, returns having popped at most as many entries as the queue held
\* when it started: the entries it did not pop are still at the front, in
\* their order, every BLAS was passed to prepare_compaction_async at most
\* once for each entry that refers to it, and when no poll reports ready the
\* call pops every entry exactly once and re-queues each one whose type still
\* has a BLAS.
C11_PassCeiling ==
    \A call \in CompactBlasCalls :
       LET q == blas_manager.compaction_queue
           r == call.r
           q2 == r.bm.compaction_queue
           kept == Len(q) - r.blocks_processed
       IN /\ r.blocks_processed <= Len(q)
          /\ kept <= Len(q2)
          /\ SubSeq(q2, 1, kept) = SubSeq(q, r.blocks_processed + 1, Len(q))
          /\ \A h \in 1..Len(gpu) :
                r.gpu[h].requests - gpu[h].requests
                   <= Cardinality(EntriesOf(blas_manager, h))
          /\ NothingReady(call) =>
                /\ r.blocks_processed = Len(q)
                /\ Len(q2) = Cardinality({i \in 1..Len(q) :
                                             q[i][1] \in DOMAIN blas_manager.blas})

\* a call has polled two entries, found neither ready and queued both again
C11_Witness ==
    /\ pc = "ticked"
    /\ Len(blas_manager.compaction_queue) >= 2
    /\ \A i \in 1..Len(blas_manager.compaction_queue) :
          LET e == blas_manager.compaction_queue[i]
          IN /\ e[3]
             /\ e[1] \in DOMAIN blas_manager.blas
             /\ gpu[blas_manager.blas[e[1]]].compact_state = "Waiting"

Present(entry) == entry[1] \in DOMAIN blas_manager.blas

\* the poll of entry i, in a call during which the queries of `now` retire,
\* reports not ready (each type has one entry in these queues)
NotReadyAtPoll(i, now) ==
    LET entry == blas_manager.compaction_queue[i]
        h == blas_manager.blas[entry[1]]
        g1 == IF ~entry[3] THEN prepare_compaction_async(gpu, h, now) ELSE gpu
    IN ~ready_for_compaction(g1, h)

\* the entries compact_blas pushes back when no poll reports ready
AllRequeued ==
    LET present == SelectSeq(blas_manager.compaction_queue, Present)
    IN [i \in 1..Len(present) |-> <<present[i][1], present[i][2], TRUE>>]

\* a call of compact_blas in which no poll reported ready
NoPollReady ==
    /\ pc = "compact_blas"
    /\ pc' = "ticked"
    /\ \A h \in Queued(blas_manager) : gpu'[h].compact_state # "Ready"

\* C13: in every call of compact_blas, an entry that is popped while its type
\* has a BLAS and whose poll reports not ready leaves the type's BLAS in the
\* map, uncompacted, and is behind the entries that were not popped, with the
\* same VoxelType and cost and with its in-flight flag set; a call in which
\* no poll reports ready leaves the whole BLAS map unchanged and the queue
\* holding these entries in their order, so that the next call starts from
\* the same kind of state.
C13_NotReadyRequeued ==
    /\ [](\A call \in CompactBlasCalls :
             LET q == blas_manager.compaction_queue
                 r == call.r
                 q2 == r.bm.compaction_queue
                 kept == Len(q) - r.blocks_processed
             IN /\ \A i \in 1..r.blocks_processed :
                      (Present(q[i]) /\ NotReadyAtPoll(i, call.now)) =>
                          /\ q[i][1] \in DOMAIN r.bm.blas
                          /\ r.bm.blas[q[i][1]] = blas_manager.blas[q[i][1]]
                          /\ r.gpu[r.bm.blas[q[i][1]]].compact_state
                                \in {"Idle", "Waiting"}
                          /\ \E j \in (kept + 1)..Len(q2) :
                                q2[j] = <<q[i][1], q[i][2], TRUE>>
                /\ NothingReady(call) =>
                      /\ r.bm.blas = blas_manager.blas
                      /\ q2 = AllRequeued
                      /\ r.vertices_processed = 0)
    /\ [][NoPollReady =>
             /\ blas_manager'.blas = blas_manager.blas
             /\ blas_manager'.compaction_queue = AllRequeued]_vars

\* a call has queued again an entry whose query had not retired, after it
\* compacted the BLAS of another type
C13_Witness ==
    /\ pc = "ticked"
    /\ \E i \in 1..Len(blas_manager.compaction_queue) :
          LET e == blas_manager.compaction_queue[i]
          IN /\ e[3]
             /\ Present(e)
             /\ gpu[blas_manager.blas[e[1]]].compact_state = "Waiting"
             /\ gpu[blas_manager.blas[e[1]]].requests = 1
    /\ \E t \in DOMAIN blas_manager.blas :
          gpu[blas_manager.blas[t]].compact_state = "Compacted"

----------------------------------------------------------------------------
(* Properties of compact_blas over re-extracted types, checked under
   SpecReextract *)

\* the VoxelTypes whose BLAS in the map is a compacted copy
CompactedTypes ==
    {t \in DOMAIN blas_manager.blas :
        gpu[blas_manager.blas[t]].compact_state = "Compacted"}

\* C14: the BLAS of a VoxelType is compacted at most once: no BLAS that is a
\* compacted copy has been passed to prepare_compaction_async, and no call of
\* compact_blas replaces a compacted copy that is in the map by a copy of it.
C14_CompactedOnce ==
    /\ \A h \in 1..Len(gpu) :
          gpu[h].compact_state = "Compacted" => gpu[h].requests = 0
    /\ \A call \in CompactBlasCalls :
          \A t \in CompactedTypes :
             /\ t \in DOMAIN call.r.bm.blas
             /\ call.r.bm.blas[t] = blas_manager.blas[t]

----------------------------------------------------------------------------
(* Properties of prepare_geometry and prepare_materials over whole frames,
   checked under SpecAssets *)

\* prepare_geometry panicked in this step (index_of_material(..).unwrap() on
\* a material that has no recorded index)
IngestionFailed ==
    /\ pc = "prepare_geometry"
    /\ pc' = "panicked"

\* C15: a run of prepare_geometry that fails partway leaves added_types,
\* object_map, index_map, material_index_map and the shared vertex, index,
\* normal and material-map buffers as they were before the run: nothing of
\* the batch is recorded.
C15_NoPartialCommit ==
    [][IngestionFailed =>
          SharedState(geometry_manager') = SharedState(geometry_manager)]_vars

\* the per-type lookups of a GeometryManager
TypeLookups(gm) == <<gm.geometries_vertices, gm.geometries_indices>>

\* prepare_geometry ran in this step
GeometryPrepared ==
    /\ pc = "prepare_geometry"
    /\ pc' # "prepare_geometry"

\* C16: prepare_geometry on removed VoxelTypes alone, from every state the
\* pipeline reaches and for every set of removed types, drops the per-type
\* vertex and index buffers of these types and changes nothing else: the
\* shared buffers, added_types, object_map, index_map, material_index_map and
\* the lookups of the other types are as before; and in every frame, whatever
\* it also extracts, a removed type keeps its object id and its offsets, and
\* has no per-type buffers afterwards unless the frame extracted it again.
C16_RemovalDropsLookupsOnly ==
    /\ [](\A removed \in SUBSET TypeIds :
             LET gm == geometry_manager
                 r == prepare_geometry(gm, ExtractedAssets(<< >>, removed, VoxelTypeAssets))
             IN /\ ~r.panicked
                /\ SharedState(r.gm) = SharedState(gm)
                /\ r.gm.materials = gm.materials
                /\ r.gm.added_materials = gm.added_materials
                /\ TypeLookups(r.gm) =
                      <<MapRemove(gm.geometries_vertices, removed),
                        MapRemove(gm.geometries_indices, removed)>>
                /\ DOMAIN r.gm.geometries_vertices =
                      DOMAIN gm.geometries_vertices \ removed)
    /\ [][GeometryPrepared =>
             \A t \in voxel_types.removed :
                /\ get_object_id(geometry_manager', t) = get_object_id(geometry_manager, t)
                /\ t \in DOMAIN geometry_manager.object_map =>
                      /\ get_index(geometry_manager', geometry_manager.object_map[t])
                            = get_index(geometry_manager, geometry_manager.object_map[t])
                      /\ get_index_material(geometry_manager', geometry_manager.object_map[t])
                            = get_index_material(geometry_manager, geometry_manager.object_map[t])
                /\ (~Contains(voxel_types.extracted, t) /\ pc' # "panicked") =>
                      /\ t \notin DOMAIN geometry_manager'.geometries_vertices
                      /\ t \notin DOMAIN geometry_manager'.geometries_indices]_vars

\* prepare_geometry has handled the removal of a type it had ingested: the
\* type has no per-type buffers any more and is still recorded
C16_Witness ==
    /\ pc = "prepare_blas"
    /\ voxel_types.extracted = << >>
    /\ \E t \in voxel_types.removed :
          /\ t \notin DOMAIN geometry_manager.geometries_vertices
          /\ Contains(geometry_manager.added_types, t)
          /\ get_object_id(geometry_manager, t) # None
    /\ \E t \in DOMAIN geometry_manager.geometries_vertices :
          t \notin voxel_types.removed

\* the handles are 0, 1, 2, ... in the order of first ingestion
DenseHandles(gm) ==
    /\ DOMAIN gm.object_map = Range(gm.added_types)
    /\ \A i \in 1..Len(gm.added_types) :
          get_object_id(gm, gm.added_types[i]) = Some(i - 1)
    /\ \A i \in 1..Len(gm.added_materials) :
          index_of_material(gm, gm.added_materials[i]) = Some(i - 1)
    /\ \A m \in MaterialIds :
          index_of_material(gm, m) # None => Contains(gm.added_materials, m)

\* no two assets share a handle
DistinctHandles(gm) ==
    /\ \A t, u \in TypeIds :
          (get_object_id(gm, t) # None /\ get_object_id(gm, t) = get_object_id(gm, u))
             => t = u
    /\ \A m, n \in MaterialIds :
          (index_of_material(gm, m) # None
              /\ index_of_material(gm, m) = index_of_material(gm, n))
             => m = n

\* a handle that was given out is still the handle of its asset
HandlesKept(old, new) ==
    /\ \A t \in TypeIds :
          get_object_id(old, t) # None => get_object_id(new, t) = get_object_id(old, t)
    /\ \A m \in MaterialIds :
          index_of_material(old, m) # None
             => index_of_material(new, m) = index_of_material(old, m)

\* C17: in every state the pipeline reaches, whatever was ingested and
\* removed, the object ids of the VoxelTypes and the indices of the materials
\* are 0, 1, 2, ... in the order of first ingestion and no two assets share
\* one; and no step changes the object id of a VoxelType or the index of a
\* material that had one.
C17_StableHandles ==
    /\ [](DenseHandles(geometry_manager) /\ DistinctHandles(geometry_manager))
    /\ [][HandlesKept(geometry_manager, geometry_manager')]_vars

\* both types and both materials have handles, given out in the order 2, 1,
\* and type 2 has been removed since
C17_Witness ==
    /\ geometry_manager.added_types = <<2, 1>>
    /\ geometry_manager.added_materials = <<2, 1>>
    /\ get_object_id(geometry_manager, 2) = Some(0)
    /\ get_object_id(geometry_manager, 1) = Some(1)
    /\ index_of_material(geometry_manager, 1) = Some(1)
    /\ 2 \notin DOMAIN geometry_manager.geometries_vertices

----------------------------------------------------------------------------
(* Properties of plugin initialization, checked under SpecPlugin *)

\* the device lacks a feature NEVR requires
LacksRequiredFeature == required_hw_features \ app.features # {}

\* App::finish has ended: every plugin finished, or one panicked
InitializationEnded == app.panicked \/ app.finished = Len(app.plugin_registry)

\* the render-stage hooks of NEVR
NEVRSystems ==
    {"prepare_view_target", "prepare_materials", "prepare_geometry",
     "prepare_blas", "compact_blas", "prepare_bindings"}

NEVRResources == {"BlasManager", "GeometryManager", "VoxelBindings"}

NEVRGraphNodes == {"NEVRNodeLabel", "DenoiserLabel"}

\* C18: on a device that lacks a required feature, no step of plugin
\* initialization adds a prepare system, a render resource or a render-graph
\* node (ray-tracing node, denoiser node) or edge; initialization prints the
\* diagnostic and stops with the panic of NEVRNode::from_world.
C18_NoHooksWithoutFeatures ==
    LacksRequiredFeature =>
        /\ app.systems \cap NEVRSystems = {}
        /\ app.resources \cap NEVRResources = {}
        /\ app.graph_nodes \cap NEVRGraphNodes = {}
        /\ app.graph_edges = {}
        /\ app.finished >= 2 => app.panicked

C18_Witness ==
    /\ LacksRequiredFeature
    /\ app.features \cap required_hw_features # {}
    /\ InitializationEnded
    /\ app.printed # << >>

\* C19: the feature set of the diagnostic is the set of required features the
\* device does not have.
C19_ReportsMissingRequired ==
    \A i \in 1..Len(app.printed) :
        app.printed[i].features = required_hw_features \ app.features

----------------------------------------------------------------------------
(* Properties of FramesInFlight, checked under SpecRender *)

\* the slots of the calls i, i+1, ..., i+MAX_FRAMES_IN_FLIGHT-1 of get_and_inc
ConsecutiveSlots(i) ==
    {voxel_render.acquired[j] : j \in i..(i + MAX_FRAMES_IN_FLIGHT - 1)}

\* C20: the counter is always in 0..MAX_FRAMES_IN_FLIGHT-1; every call of
\* get_and_inc returns the value the counter held before the call, so the
\* calls return 0,1,2,0,1,2,... and any MAX_FRAMES_IN_FLIGHT consecutive calls
\* return pairwise distinct slots.
C20_FramesInFlightWraps ==
    /\ [](/\ voxel_render.frames_in_flight \in 0..(MAX_FRAMES_IN_FLIGHT - 1)
          /\ \A i \in 1..Len(voxel_render.acquired) :
                voxel_render.acquired[i] = (i - 1) % MAX_FRAMES_IN_FLIGHT
          /\ \A i \in 1..(Len(voxel_render.acquired) - MAX_FRAMES_IN_FLIGHT + 1) :
                Cardinality(ConsecutiveSlots(i)) = MAX_FRAMES_IN_FLIGHT)
    /\ [][voxel_render'.acquired # voxel_render.acquired =>
             voxel_render'.acquired =
                 Append(voxel_render.acquired, voxel_render.frames_in_flight)]_vars

C20_Witness ==
    /\ Len(voxel_render.acquired) = 2 * MAX_FRAMES_IN_FLIGHT + 1
    /\ voxel_render.acquired[MAX_FRAMES_IN_FLIGHT + 1] = 0
    /\ voxel_render.frames_in_flight = 1

----------------------------------------------------------------------------
(* Properties of render, checked under SpecRender *)

Slots == 0..(MAX_FRAMES_IN_FLIGHT - 1)

\* C21: for each slot, in any interleaving of render calls and GPU
\* completions, the host reads the slot's readback buffer, and submits new
\* work writing it, only when no earlier submission for the slot is in
\* flight; two submissions writing the same slot are never in flight together.
C21_SlotReusedAfterRetire ==
    /\ \A slot \in Slots :
          /\ voxel_render.in_flight[slot] <= 1
          /\ voxel_render.futures[slot] = "pending" <=> voxel_render.in_flight[slot] = 1
    /\ \A i \in 1..Len(voxel_render.last_read) :
          voxel_render.last_read[i].in_flight = 0

C21_Witness ==
    /\ Len(voxel_render.acquired) > MAX_FRAMES_IN_FLIGHT
    /\ voxel_render.last_read # << >>
    /\ voxel_render.last_read[1].waited
    /\ voxel_render.in_flight[voxel_render.last_read[1].slot] = 1
    /\ \E slot \in Slots : voxel_render.futures[slot] = "retired"

----------------------------------------------------------------------------
(* Properties of the acceleration-structure builds, checked under SpecBuilds *)

BoundTlas == voxel_bindings.bind_group[1].tlas

\* prepare_bindings has just made a bind group
BindGroupMade ==
    /\ pc = "prepare_bindings"
    /\ pc' = "render"
    /\ voxel_bindings'.bind_group # None

\* C22 as stated: the build of every BLAS a TLAS instance refers to, and the
\* build of the TLAS of a binding set, have completed on the device when the
\* host holds the TLAS in the binding set.
C22_BuildsAwaited ==
    voxel_bindings.bind_group # None =>
        /\ voxel_bindings.bind_group[1].tlas_build_done
        /\ \A h \in TlasBlas(BoundTlas) : BlasBuildDone(gpu, h)

\* C22: the host submits every build before it uses the handle and awaits
\* none: the build of every BLAS a TLAS instance refers to was submitted
\* before the TLAS was made, the build of the TLAS was submitted in the call
\* that places it in the binding set and has not been executed when the call
\* returns, and the device executes the build of a TLAS after the builds of
\* the BLAS its instances refer to.
C22_BuildsSubmittedInOrder ==
    /\ [](voxel_bindings.bind_group # None =>
             /\ \A h \in TlasBlas(BoundTlas) : gpu[h].built
             /\ voxel_bindings.bind_group[1].tlas_build_done =>
                   \A h \in TlasBlas(BoundTlas) : BlasBuildDone(gpu, h))
    /\ [][BindGroupMade =>
             /\ frame_log'.tlas_builds = <<voxel_bindings'.bind_group[1].tlas>>
             /\ ~voxel_bindings'.bind_group[1].tlas_build_done]_vars

\* a binding set holds a TLAS that is not built yet, over a BLAS that is not
\* built yet either
C22_Witness ==
    /\ voxel_bindings.bind_group # None
    /\ ~voxel_bindings.bind_group[1].tlas_build_done
    /\ \E h \in TlasBlas(BoundTlas) : ~BlasBuildDone(gpu, h)

----------------------------------------------------------------------------
(* Properties of the sizes prepare_geometry produces, checked under
   SpecAssets *)

\* prepare_geometry ran to its end
Ingested == pc = "prepare_geometry" /\ pc' = "prepare_blas"

\* the types of the batch that were never ingested before
NewTypes == Range(voxel_types.extracted) \ Range(geometry_manager.added_types)

RECURSIVE VoxelsOf(_)
VoxelsOf(types) ==
    IF types = {} THEN 0
    ELSE LET t == CHOOSE x \in types : TRUE
         IN VoxelCount(t) + VoxelsOf(types \ {t})

\* what a call of prepare_geometry appended to a shared buffer
Appended(buffer_vec_after, buffer_vec_before) ==
    Len(buffer_vec_after.values) - Len(buffer_vec_before.values)

\* C23: ingesting new VoxelTypes with n voxels in all appends 24n vertices and
\* 24n normals of 4 floats each, 12n index 4-tuples and 12n material-map
\* entries to the shared buffers; the per-type buffers of a type with n voxels
\* hold 24n vertices (3 floats each) and 36n indices.
C23_IngestionCounts ==
    [][Ingested =>
          LET n == VoxelsOf(NewTypes)
          IN /\ Appended(geometry_manager'.vertices, geometry_manager.vertices) = 24 * n * 4
             /\ Appended(geometry_manager'.normals, geometry_manager.normals) = 24 * n * 4
             /\ Appended(geometry_manager'.indices, geometry_manager.indices) = 12 * n * 4
             /\ Appended(geometry_manager'.material_map, geometry_manager.material_map) = 12 * n
             /\ \A t \in Range(voxel_types.extracted) :
                   /\ Len(geometry_manager'.geometries_vertices[t]) = 24 * VoxelCount(t) * 3
                   /\ Len(geometry_manager'.geometries_indices[t]) = 36 * VoxelCount(t)]_vars

\* a type of one voxel and a type of two were ingested: 24 vertices and 36
\* indices for the first
C23_Witness ==
    /\ pc = "prepare_blas"
    /\ geometry_manager.added_types = <<1, 2>>
    /\ Len(geometry_manager.vertices.values) = 288
    /\ Len(geometry_manager.material_map.values) = 36
    /\ 1 \in DOMAIN geometry_manager.geometries_vertices
    /\ Len(geometry_manager.geometries_vertices[1]) = 72
    /\ Len(geometry_manager.geometries_indices[1]) = 36

----------------------------------------------------------------------------
(* Properties of compact_blas over removed types, checked under SpecCompact *)

\* the types prepare_blas allocated a BLAS for and removed since
RemovedIds == (1..Cardinality(Allocated(gpu))) \ DOMAIN blas_manager.blas

\* the entries a call pushed back: those behind the entries it left unvisited
RequeuedBy(call) ==
    LET left == Len(blas_manager.compaction_queue) - call.r.blocks_processed
        queue == call.r.bm.compaction_queue
    IN {queue[i] : i \in (left + 1)..Len(queue)}

\* the entries a call visited
VisitedBy(call) ==
    {blas_manager.compaction_queue[i] : i \in 1..call.r.blocks_processed}

\* C24: once a VoxelType is removed, no call of compact_blas puts a BLAS for
\* it back into the map, and a call that visits its queue entry drops the
\* entry: it leaves the unvisited entries in place and pushes back no entry of
\* a removed type.
C24_RemovedStaysRemoved ==
    /\ [](pc = "compact_blas" =>
             \A call \in CompactBlasCalls :
                /\ RemovedIds \cap DOMAIN call.r.bm.blas = {}
                /\ \A e \in RequeuedBy(call) : e[1] \notin RemovedIds
                /\ SubSeq(call.r.bm.compaction_queue, 1,
                          Len(blas_manager.compaction_queue) - call.r.blocks_processed)
                      = SubSeq(blas_manager.compaction_queue,
                               call.r.blocks_processed + 1,
                               Len(blas_manager.compaction_queue)))
    /\ [][RemovedIds \cap DOMAIN blas_manager'.blas = {}]_vars

\* a call visits the entry of a removed type and an entry it pushes back
C24_Witness ==
    /\ pc = "compact_blas"
    /\ \E call \in CompactBlasCalls :
          /\ \E e \in VisitedBy(call) : e[1] \in RemovedIds
          /\ RequeuedBy(call) # {}
          /\ \A e \in Range(call.r.bm.compaction_queue) : e[1] \notin RemovedIds

----------------------------------------------------------------------------
(* Properties of the binding set, checked under Spec *)

\* C25: every binding set prepare_bindings makes has seven entries, in the
\* order TLAS, object metadata, index buffer, vertex buffer, normal buffer,
\* material buffer, material-index map, which is the order of the bindings of
\* the layout the ray-tracing pipeline is created with.
C25_BindingOrder ==
    voxel_bindings.bind_group # None =>
        LET entries == voxel_bindings.bind_group[1].entries
        IN /\ Len(entries) = 7
           /\ entries = << "tlas", "objects", "indices", "vertices", "normals",
                           "materials", "material_map" >>
           /\ Len(VoxelBindGroupLayout) = Len(entries)
           /\ \A i \in 1..Len(entries) : VoxelBindGroupLayout[i].resource = entries[i]

C25_Witness ==
    /\ pc = "render"
    /\ voxel_bindings.bind_group # None
    /\ Len(voxel_bindings.bind_group[1].tlas) = MaxObjects
    /\ \A i \in 1..MaxObjects : voxel_bindings.bind_group[1].tlas[i] # None

----------------------------------------------------------------------------
(* Properties of the compaction-size query, checked under SpecReextract *)

\* the entries of the queue that are flagged as in flight
InFlightEntries(queue) == {i \in 1..Len(queue) : queue[i][3]}

\* C26: prepare_compaction_async is called once for a BLAS prepare_blas
\* allocated, on the first visit of its queue entry (an entry that is flagged
\* refers to a BLAS that was asked once); a BLAS whose query is in flight or
\* ready was asked for it; and no call pushes an entry back without the flag.
C26_QueryRequestedOnce ==
    /\ \A h \in Allocated(gpu) :
          /\ gpu[h].requests <= 1
          /\ gpu[h].compact_state \in {"Waiting", "Ready"} => gpu[h].requests = 1
    /\ \A e \in Range(blas_manager.compaction_queue) :
          e[3] /\ e[1] \in DOMAIN blas_manager.blas
             /\ blas_manager.blas[e[1]] \in Allocated(gpu)
          => gpu[blas_manager.blas[e[1]]].requests = 1
    /\ \A call \in CompactBlasCalls : \A e \in RequeuedBy(call) : e[3]

----------------------------------------------------------------------------
(* Properties of the uploads of prepare_geometry, checked under SpecAssets *)

\* C27: a call of prepare_geometry that runs to its end uploads each shared
\* buffer once if its batch holds a type that was never ingested, and not at
\* all if it holds none.
C27_OneUploadPerBatch ==
    pc = "prepare_geometry" =>
        LET r == prepare_geometry(geometry_manager, voxel_types)
        IN ~r.panicked => r.uploads = (IF NewTypes # {} THEN 1 ELSE 0)

----------------------------------------------------------------------------
(* Properties of tlas_transform, checked under SpecTransform *)

\* the transform of the instance of the object
InstanceTransform == frame_log.tlas_builds[1][1][1].transform

\* C28: for every world matrix M, tlas_transform(M) has 12 values, the value
\* at position 4r+c being the element of M in row r and column c, for r in
\* 0..2 and c in 0..3: the top three rows, row-major, with the translation at
\* the positions 3, 7 and 11.
C28_TopThreeRows ==
    pc = "render" =>
        LET M == blocks[1].transform
        IN /\ Len(InstanceTransform) = 12
           /\ \A r \in 0..2 : \A c \in 0..3 :
                 InstanceTransform[4 * r + c + 1] = M[4 * c + r + 1]
           /\ InstanceTransform[3 + 1] = M[13]
           /\ InstanceTransform[7 + 1] = M[14]
           /\ InstanceTransform[11 + 1] = M[15]

\* the matrix whose entries are all different went through
C28_Witness ==
    /\ pc = "render"
    /\ blocks[1].transform = [i \in 1..16 |-> i]
    /\ InstanceTransform = <<1, 5, 9, 13, 2, 6, 10, 14, 3, 7, 11, 15>>

----------------------------------------------------------------------------
(* Properties of NEVRNode::run, checked under SpecNode *)

\* the render graph ran
GraphRan == pc = "render" /\ pc' = "extract"

\* what NEVRNode::run needs and the render world of the step lacks
NodeLacks ==
    LET world == view'.resources[1]
    IN \/ voxel_bindings.bind_group = None
       \/ (IF world.skybox # None THEN "skybox_pipeline" ELSE "pipeline")
             \notin world.pipelines
       \/ view.viewport = None
       \/ world.view_uniforms = None

\* C29: when the bind group is absent, or the pipeline, the viewport size or
\* the view uniforms are not available, NEVRNode::run records no compute pass
\* and no dispatch and returns Ok, and VoxelViewTarget::output holds what it
\* held before the run.
C29_NoPassWithoutBindings ==
    [][GraphRan /\ NodeLacks =>
          /\ view'.node[1].result = "Ok"
          /\ view'.node[1].passes = << >>
          /\ view'.output = view.output]_vars

\* the objects of a frame were traced, and a later frame found no bind group
C29_Witness ==
    /\ pc = "extract"
    /\ voxel_bindings.bind_group = None
    /\ view.node # None
    /\ view.node[1].printed = <<"no bind group">>
    /\ view.node[1].passes = << >>
    /\ view.output # Stale

----------------------------------------------------------------------------
(* Properties of the A-Trous denoiser, checked under SpecDenoiser *)

\* the A-Trous filter ran in the last frame
ATrousRan ==
    /\ pc = "extract"
    /\ view.denoiser[1] = "ATrous"
    /\ view.denoiser_node # None
    /\ view.denoiser_node[1].printed = << >>

\* C30: for every filter size s >= 1, the A-Trous denoiser records as many
\* filter passes as prepare_view_target allocated secondary textures,
\* floor(log2 s) + 1 of them; pass k writes texture k and reads texture k - 1
\* (the first reads the traced image); no texture index is out of range; and
\* the texture copied to the view target is the one the last pass wrote.
C30_PassesMatchTextures ==
    ATrousRan =>
        LET run == view.denoiser_node[1]
            n == Len(view.secondary_textures)
        IN /\ run.result = "Ok"
           /\ Len(run.passes) = n
           /\ n = u32_bits(view.denoiser[2])
           /\ \A k \in 1..Len(run.passes) :
                 /\ run.passes[k].writes = k - 1
                 /\ run.passes[k].writes < n
                 /\ run.passes[k].reads = (IF k = 1 THEN "view_input" ELSE k - 2)
           /\ run.copied = Some(run.passes[Len(run.passes)].writes)

\* C38: for every filter size s in 1..=u32::MAX the loop of the A-Trous
\* passes ends by its break after at most u32::BITS passes: the step width,
\* doubled after each pass, never overflows u32, and never wraps to a value
\* that keeps the loop running (every pass has a wider step than the one
\* before it).
C38_StepWidthNeverOverflows ==
    ATrousRan =>
        LET run == view.denoiser_node[1]
        IN /\ run.result = "Ok"
           /\ Len(run.passes) <= u32_BITS
           /\ \A k \in 2..Len(run.passes) :
                 u32_gt(run.passes[k].filter, run.passes[k - 1].filter)

----------------------------------------------------------------------------
(* Properties of the order of the stages, checked under SpecSchedule *)

\* the stages of the claim, in its order
StageOrder ==
    <<"prepare_materials", "prepare_geometry", "prepare_blas", "compact_blas",
      "prepare_bindings", "NEVRNodeLabel", "DenoiserLabel">>

\* the place of a stage that ran in the frame
RanAt(stage) == CHOOSE i \in 1..Len(pc) : pc[i] = stage

\* the objects of the frame that are visible and whose type has a BLAS
InstanceOfTlas(block) == block.visible /\ block.voxel_type \in DOMAIN blas_manager.blas

\* the TLAS instances of the bind group are those objects, in their order,
\* each with the BLAS the map holds for its type
TlasRefersToMap ==
    voxel_bindings.bind_group # None =>
        LET tlas == voxel_bindings.bind_group[1].tlas
            instances == SelectSeq(blocks, InstanceOfTlas)
        IN \A i \in 1..Len(tlas) :
              IF i <= Len(instances)
              THEN /\ tlas[i] # None
                   /\ tlas[i][1].blas = blas_manager.blas[instances[i].voxel_type]
              ELSE tlas[i] = None

\* C31: in every frame the stages run in the order prepare_materials,
\* prepare_geometry, prepare_blas, compact_blas, prepare_bindings, the
\* ray-tracing node, the denoiser node; the BLAS map changes only before
\* prepare_bindings ran in the frame; and at the end of the frame the TLAS
\* built in it refers to the BLAS that are in the map.
C31_StagesInOrder ==
    /\ [](\A i, j \in 1..Len(StageOrder) :
             i < j /\ StageOrder[j] \in Range(pc)
                => StageOrder[i] \in Range(pc)
                   /\ RanAt(StageOrder[i]) < RanAt(StageOrder[j]))
    /\ [][blas_manager'.blas # blas_manager.blas
             => "prepare_bindings" \notin Range(pc)]_vars
    /\ []("prepare_bindings" \in Range(pc) => TlasRefersToMap)

\* a frame ended in which compact_blas put a compacted BLAS in the map and
\* prepare_bindings built a TLAS of two instances over it
C31_Witness ==
    /\ Range(pc) = Stages
    /\ voxel_bindings.bind_group # None
    /\ Len(blocks) = 2
    /\ \A i \in 1..2 : voxel_bindings.bind_group[1].tlas[i] # None
    /\ \E t \in DOMAIN blas_manager.blas :
          /\ gpu[blas_manager.blas[t]].compact_state = "Compacted"
          /\ voxel_bindings.bind_group[1].tlas[1][1].blas = blas_manager.blas[t]

----------------------------------------------------------------------------
(* Properties of the shared index buffer, checked under SpecAssets *)

\* the vertex indices in the range of the k-th ingested type in the shared
\* index buffer: the first three words of each uvec4
SharedIndices(gm, k) ==
    {gm.indices.values[p + 1] :
        p \in {q \in IndexRange(gm, k)[1]..(IndexRange(gm, k)[2] - 1) :
                  q % 4 # 3 /\ q < Len(gm.indices.values)}}

\* C32: every vertex index stored in the range of a type in the shared index
\* buffer refers to a vertex (a vec4) inside the range of that type in the
\* shared vertex buffer and in the normal buffer.
C32_IndicesInOwnRange ==
    pc # "panicked" =>
        \A k \in 1..Len(geometry_manager.added_types) :
           \A v \in SharedIndices(geometry_manager, k) :
              /\ VertexRange(geometry_manager, k)[1] <= 4 * v
              /\ 4 * v < VertexRange(geometry_manager, k)[2]
              /\ 4 * v < Len(geometry_manager.vertices.values)
              /\ 4 * v < Len(geometry_manager.normals.values)

----------------------------------------------------------------------------
(* Properties of the BLAS size descriptor, checked under SpecAssets *)

\* C33: the vertex_count of the size descriptor of the BLAS of a type, which
\* is also the cost in its compaction-queue entry, is the number of vertices
\* in the per-type vertex buffer, 24 for each voxel, and index_count is the
\* number of indices in the per-type index buffer, 36 for each voxel.
C33_SizeDescriptorCounts ==
    /\ \A t \in DOMAIN blas_manager.blas :
          LET size == gpu[blas_manager.blas[t]]
          IN /\ size.vertex_count = VerticesPerVoxel * VoxelCount(t)
             /\ size.vertex_count * 3 = Len(geometry_manager.geometries_vertices[t])
             /\ size.index_count = Len(INDICES) * VoxelCount(t)
             /\ size.index_count = Len(geometry_manager.geometries_indices[t])
    /\ \A e \in Range(blas_manager.compaction_queue) :
          e[2] = VerticesPerVoxel * VoxelCount(e[1])

----------------------------------------------------------------------------
(* Properties of the compaction queue over re-extractions, checked under
   SpecReextract *)

\* C34: the compaction queue holds at most one entry for a VoxelType, and an
\* entry whose flag is set refers to a BLAS whose compacted size was asked
\* for.
C34_OneEntryPerType ==
    LET queue == blas_manager.compaction_queue
    IN /\ \A i, j \in 1..Len(queue) : queue[i][1] = queue[j][1] => i = j
       /\ \A i \in 1..Len(queue) :
             queue[i][3] /\ queue[i][1] \in DOMAIN blas_manager.blas
                => gpu[blas_manager.blas[queue[i][1]]].requests >= 1

----------------------------------------------------------------------------
(* Properties of the lookups of prepare_bindings, checked under Spec *)

\* C35: whenever the BLAS map holds an entry for a VoxelType, the geometry
\* manager has an object id, an index offset and a material offset for it;
\* so a prepare_bindings that leaves the bind group None has printed why
\* (it never returns from inside its loop over the objects).
C35_BlasTypesHaveOffsets ==
    /\ \A t \in DOMAIN blas_manager.blas :
          LET id == get_object_id(geometry_manager, t)
          IN /\ id # None
             /\ get_index(geometry_manager, id[1]) # None
             /\ get_index_material(geometry_manager, id[1]) # None
    /\ pc = "render" /\ voxel_bindings.bind_group = None
          => frame_log.printed # << >>

\* prepare_bindings built a bind group over two objects of different types,
\* each type with a BLAS in the map
C35_Witness ==
    /\ pc = "render"
    /\ voxel_bindings.bind_group # None
    /\ DOMAIN blas_manager.blas = TypeIds
    /\ Len(voxel_bindings.bind_group[1].objects) = 2
    /\ voxel_bindings.bind_group[1].objects[1].index
          # voxel_bindings.bind_group[1].objects[2].index

----------------------------------------------------------------------------
(* Properties of reset_frame_count, checked under SpecFrameCount *)

CameraChanged(c) == c.camera \/ c.transform \/ c.projection

\* C37: reset_frame_count sets FrameCount to u32::MAX when at least one
\* VoxelCamera had its camera component, its global transform or its
\* projection changed, and leaves FrameCount as it was when none had.
C37_ResetWhenAnyChanged ==
    [][pc = "reset_frame_count" /\ pc' = "update" =>
          IF \E i \in DOMAIN main_world.cameras :
                 CameraChanged(main_world.cameras[i])
          THEN main_world'.frame_count = u32_MAX
          ELSE main_world'.frame_count = main_world.frame_count]_vars

----------------------------------------------------------------------------
(* Properties of the two copies of the geometry of a type, checked under
   SpecEdited *)

\* a list of vec4 without the fourth word of each
Unpad4(s) ==
    [i \in 1..((Len(s) \div 4) * 3) |-> s[4 * ((i - 1) \div 3) + ((i - 1) % 3) + 1]]

\* the words of the k-th ingested type in the shared index buffer, from its
\* offset of index_map to the offset of the next type or the end
SharedIndexWords(gm, k) ==
    SubSeq(gm.indices.values, 4 * gm.index_map[k] + 1,
           IF k < Len(gm.index_map) THEN 4 * gm.index_map[k + 1]
           ELSE Len(gm.indices.values))

\* the words the ingestion of the k-th type pushed to the shared vertex
\* buffer: a voxel has two vec4 of vertices for each uvec4 of indices
SharedVertexWords(gm, k) ==
    LET per == VertexFloatsPerVoxel \div (IndexWordsPerVoxel \div 4)
    IN SubSeq(gm.vertices.values, per * gm.index_map[k] + 1,
              IF k < Len(gm.index_map) THEN per * gm.index_map[k + 1]
              ELSE Len(gm.vertices.values))

\* the shared range of the k-th type holds the triangles of the per-type
\* buffers of the type
SameTriangles(gm, k) ==
    LET t == gm.added_types[k]
        shared == Unpad4(SharedIndexWords(gm, k))
    IN /\ Unpad4(SharedVertexWords(gm, k)) = gm.geometries_vertices[t]
       /\ [i \in 1..Len(shared) |-> shared[i] - gm.index_map[k]]
             = gm.geometries_indices[t]

\* C36: after any sequence of ingestions, also of a recorded VoxelType whose
\* voxel list has changed, the triangles in the range of a type in the shared
\* buffers are, up to the global index offset and the padding, those of the
\* per-type vertex and index buffers its current BLAS is built from.
C36_SharedRangeMatchesBlasInput ==
    pc # "panicked" =>
        \A k \in 1..Len(geometry_manager.added_types) :
           geometry_manager.added_types[k]
                 \in DOMAIN geometry_manager.geometries_vertices
              => SameTriangles(geometry_manager, k)

====
